---- MODULE Spec2Model ----
(***************************************************************************)
(* A model of figma_ios_bfs_tool.py: the decision-state workflow engine.   *)
(* The persisted state document, the commands that read and write it       *)
(* (init, skeleton, children, facts, next, apply, export, status,          *)
(* validate) and the pure functions they call are translated from the      *)
(* Python source.  JSON values are tagged records so that values of        *)
(* different JSON types can be compared.                                   *)
(***************************************************************************)
EXTENDS Integers, Sequences, FiniteSets, TLC

VARIABLES
    raw,     \* the JSON payload handed to init (--input)
    file,    \* the state file: NoFile, or the persisted state document
    out,     \* what the last command returned: its name, exit status, JSON result
    hist,    \* the apply calls of the run so far (kept only by the specifications that need them)
    wr       \* the write of the state file in progress (kept only by SpecWrite)

vars == <<raw, file, out, hist, wr>>

---------------------------------------------------------------------------
(* Bounds of the model *)

\* the raw trees handed to init have at most MaxNodes node objects
MaxNodes == 5

\* json.dump writes the text of a document in MaxChunks pieces
MaxChunks == 2

\* the trees of the workflow specifications have at most MaxWorkNodes node objects
MaxWorkNodes == 2

---------------------------------------------------------------------------
(* JSON values *)

JNull == [t |-> "null"]
JBool(b) == [t |-> "bool", b |-> b]
JNum(n) == [t |-> "num", n |-> n]
JStr(s) == [t |-> "str", s |-> s]
JList(q) == [t |-> "list", q |-> q]
JObj(f) == [t |-> "dict", f |-> f]

EmptyDict == <<>>

IsDict(v) == v.t = "dict"
IsList(v) == v.t = "list"
IsStr(v) == v.t = "str"

\* Python's d.get(k) on a dict held as a function from keys to values
Get(d, k) == IF k \in DOMAIN d THEN d[k] ELSE JNull

\* Python's d.get(k, default)
GetOr(d, k, default) == IF k \in DOMAIN d THEN d[k] ELSE default

\* Python's bool(v) of a JSON value
Truthy(v) ==
    CASE v.t = "null" -> FALSE
      [] v.t = "bool" -> v.b
      [] v.t = "num" -> v.n # 0
      [] v.t = "str" -> v.s # ""
      [] v.t = "list" -> v.q # <<>>
      [] v.t = "dict" -> DOMAIN v.f # {}

\* isinstance(v, str) and v
IsNonEmptyStr(v) == IsStr(v) /\ v.s # ""

\* dict(d) with key k popped
Pop(d, k) == [x \in DOMAIN d \ {k} |-> d[x]]

\* d with d[k] = v assigned
Put(d, k, v) == [x \in DOMAIN d \cup {k} |-> IF x = k THEN v ELSE d[x]]

---------------------------------------------------------------------------
(* Program constants *)

STATE_VERSION == 1

UI_SYSTEMS == {"UIKit", "SwiftUI"}

---------------------------------------------------------------------------
(* The raw design trees handed to init.  A tree of n node objects is laid  *)
(* out in document order: depth[i] is the depth of the i-th object, the    *)
(* i-th object carries the id IdNames[i] unless it repeats an earlier      *)
(* object's id, and at most one object is irregular (hidden, without id,   *)
(* not an object at all, or wrapped in a {"document": ...} object).        *)

IdNames == <<"a", "b", "c", "d", "e", "f", "g", "h">>

\* an id no tree uses
UnknownId == "zz"

Shapes(n) ==
    {d \in [1..n -> 0..(n - 1)] :
        /\ d[1] = 0
        /\ \A i \in 2..n : d[i] >= 1 /\ d[i] <= d[i - 1] + 1}

\* <<i, j>>: object j repeats the id of object i; <<0, 0>>: all ids differ
Repeats(n) == {<<0, 0>>} \cup {p \in (1..n) \X (1..n) : p[1] < p[2]}

LabelOf(rep, i) == IF rep[2] = i THEN IdNames[rep[1]] ELSE IdNames[i]

ChildPositions(d, i) ==
    {j \in (i + 1)..Len(d) :
        /\ d[j] = d[i] + 1
        /\ \A k \in (i + 1)..j : d[k] > d[i]}

IsLeaf(d, i) == ChildPositions(d, i) = {}

\* <<i, kind>>: object i is irregular in that way; <<0, "none">>: no object is
Marks(d) ==
    {<<0, "none">>}
        \cup ((1..Len(d)) \X {"hidden", "noid"})
        \cup {m \in (2..Len(d)) \X {"scalar"} : IsLeaf(d, m[1])}
        \cup {<<1, "wrapped">>, <<1, "notobject">>}

RECURSIVE SortedSeq(_)
SortedSeq(S) ==
    IF S = {} THEN <<>>
    ELSE LET m == CHOOSE x \in S : \A y \in S : x <= y
         IN <<m>> \o SortedSeq(S \ {m})

RawFields(d, rep, mk, i) ==
    {"type"}
        \cup (IF mk = <<i, "noid">> THEN {} ELSE {"id"})
        \cup (IF mk = <<i, "hidden">> THEN {"visible"} ELSE {})
        \cup (IF IsLeaf(d, i) THEN {} ELSE {"children"})

RECURSIVE RawNode(_, _, _, _)
RawNode(d, rep, mk, i) ==
    IF mk = <<i, "scalar">> THEN JStr(LabelOf(rep, i))
    ELSE JObj([k \in RawFields(d, rep, mk, i) |->
            CASE k = "id" -> JStr(LabelOf(rep, i))
              [] k = "type" -> JStr(IF IsLeaf(d, i) THEN "TEXT" ELSE "FRAME")
              [] k = "visible" -> JBool(FALSE)
              [] k = "children" ->
                    LET cs == SortedSeq(ChildPositions(d, i))
                    IN JList([x \in 1..Len(cs) |-> RawNode(d, rep, mk, cs[x])])])

RawPayload(d, rep, mk) ==
    CASE mk = <<1, "wrapped">> -> JObj([k \in {"document"} |-> RawNode(d, rep, mk, 1)])
      [] mk = <<1, "notobject">> -> JList(<<RawNode(d, rep, mk, 1)>>)
      [] OTHER -> RawNode(d, rep, mk, 1)

RawTrees(n) ==
    UNION {{RawPayload(d, rep, mk) : rep \in Repeats(Len(d)), mk \in Marks(d)} :
              d \in UNION {Shapes(k) : k \in 1..n}}

---------------------------------------------------------------------------
(* The state file *)

NoFile == [exists |-> FALSE]

\* load_state: the document, or an exception
\* a load that does not look at the version
LoadAnyVersion(f) ==
    IF ~f.exists THEN [ok |-> FALSE, error |-> "no such file"]
    ELSE [ok |-> TRUE, state |-> f.doc]

load_state(f) ==
    IF ~f.exists THEN [ok |-> FALSE, error |-> "no such file"]
    ELSE IF "version" \notin DOMAIN f.doc THEN [ok |-> FALSE, error |-> "unsupported state version"]
    ELSE IF f.doc.version # STATE_VERSION THEN [ok |-> FALSE, error |-> "unsupported state version"]
    ELSE [ok |-> TRUE, state |-> f.doc]

\* save_state / write_json_atomic: the file holds the whole new document
save_state(state) == [exists |-> TRUE, doc |-> state]

\* no write is in progress
NoWrite == [pc |-> "idle"]

\* the text of a document up to its k-th piece: not a JSON document
Truncated(doc, k) == [t |-> "truncated", of |-> doc, written |-> k]

\* a command calls save_state: old is the state file as it is, new the file
\* the command is to leave, result what it prints after the write
begin_write(old, new, result) ==
    [pc |-> "mkstemp", old |-> old, new |-> new, result |-> result, tmp |-> 0]

\* mkstemp: an empty temporary file in the directory of the state file
mkstemp_step(w) == [w EXCEPT !.pc = "dump", !.tmp = 0]

\* a dump that hands the file over as soon as its first piece is written
DumpOnePiece(w) == [w EXCEPT !.tmp = w.tmp + 1, !.pc = "replace"]

\* json.dump writes the next piece of the text to the temporary file; the
\* with block closes the file after the last piece
dump_step(w) ==
    [w EXCEPT !.tmp = w.tmp + 1,
              !.pc = IF w.tmp + 1 = MaxChunks THEN "replace" ELSE "dump"]

\* what the temporary file holds
tmp_content(w) == IF w.tmp = MaxChunks THEN w.new.doc ELSE Truncated(w.new.doc, w.tmp)

\* os.replace: the state file is the temporary file from now on
replace_step(w) == [exists |-> TRUE, doc |-> tmp_content(w)]

---------------------------------------------------------------------------
(* Tree Indexer *)

select_root_node(payload) ==
    IF IsDict(payload) /\ IsDict(Get(payload.f, "document"))
    THEN [ok |-> TRUE, root |-> payload.f["document"]]
    ELSE IF IsDict(payload) THEN [ok |-> TRUE, root |-> payload]
    ELSE [ok |-> FALSE, error |-> "input JSON root must be an object"]

\* str(v) of the values a node's name and type take
PyStr(v) ==
    CASE v.t = "str" -> v.s
      [] v.t = "null" -> "None"
      [] v.t = "bool" -> IF v.b THEN "True" ELSE "False"
      [] OTHER -> "?"

\* name_tokens: a missing name has no tokens; the names of the model are
\* single lower-case words, whose only token is the word, and a few names
\* of two words, split at the case change or the separator
name_tokens(v) ==
    IF v.t = "null" THEN <<>>
    ELSE CASE PyStr(v) = "ListButton" -> <<JStr("list"), JStr("button")>>
           [] PyStr(v) = "btn_icon" -> <<JStr("btn"), JStr("icon")>>
           [] PyStr(v) = "icon-title" -> <<JStr("icon"), JStr("title")>>
           [] PyStr(v) = "grid/feed" -> <<JStr("grid"), JStr("feed")>>
           [] OTHER -> <<JStr(PyStr(v))>>

is_number(v) == v.t = "num"

\* str.upper() of the strings the model has: its lower-case words, and
\* strings without lower-case letters, which stay as they are
Upper(s) ==
    CASE s = "text" -> "TEXT"
      [] s = "max" -> "MAX"
      [] s = "fixed" -> "FIXED"
      [] s = "vertical" -> "VERTICAL"
      [] s = "None" -> "NONE"
      [] OTHER -> s

FRAME_KEYS == {"x", "y", "width", "height", "rotation"}

LAYOUT_KEYS ==
    {"layoutMode", "layoutPositioning", "layoutSizingHorizontal", "layoutSizingVertical",
     "constraints", "layoutGrow", "layoutAlign", "itemSpacing", "paddingLeft",
     "paddingRight", "paddingTop", "paddingBottom", "primaryAxisAlignItems",
     "counterAxisAlignItems", "layoutWrap"}

\* a variant that clips without a mark
TextFactsClipped(node, max_text_len) ==
    LET c1 == Get(node.f, "characters")
        chars == IF Truthy(c1) THEN c1 ELSE Get(node.f, "text")
    IN IF IsStr(chars) /\ chars.s # ""
       THEN IF max_text_len >= 0 /\ Len(chars.s) > max_text_len
            THEN [k \in {"characters", "charactersTruncated"} |->
                    IF k = "characters"
                    THEN JStr(SubSeq(chars.s, 1, max_text_len))
                    ELSE JBool(TRUE)]
            ELSE [k \in {"characters"} |-> chars]
       ELSE EmptyDict

\* the text facts of a TEXT node: the characters, clipped when they are
\* longer than max_text_len >= 0 (the raw nodes of the model carry no font
\* and no fills)
text_facts(node, max_text_len) ==
    LET c1 == Get(node.f, "characters")
        chars == IF Truthy(c1) THEN c1 ELSE Get(node.f, "text")
    IN IF IsStr(chars) /\ chars.s # ""
       THEN IF max_text_len >= 0 /\ Len(chars.s) > max_text_len
            THEN [k \in {"characters", "charactersTruncated"} |->
                    IF k = "characters"
                    THEN JStr(SubSeq(chars.s, 1, max_text_len) \o "...")
                    ELSE JBool(TRUE)]
            ELSE [k \in {"characters"} |-> chars]
       ELSE EmptyDict

\* node_facts, for the keys the raw nodes of the model carry: no style and
\* no image
node_facts(node, max_text_len) ==
    LET frame == [k \in {q \in FRAME_KEYS : is_number(Get(node.f, q))} |-> node.f[k]]
        layout == [k \in {q \in LAYOUT_KEYS : Get(node.f, q) # JNull} |-> node.f[k]]
        text == IF Upper(PyStr(GetOr(node.f, "type", JStr("")))) = "TEXT"
                THEN text_facts(node, max_text_len) ELSE EmptyDict
        keys == {"nameTokens", "visible", "locked"}
                   \cup (IF DOMAIN frame # {} THEN {"frame"} ELSE {})
                   \cup (IF DOMAIN layout # {} THEN {"layout"} ELSE {})
                   \cup (IF DOMAIN text # {} THEN {"text"} ELSE {})
    IN JObj([k \in keys |->
        CASE k = "nameTokens" -> JList(name_tokens(Get(node.f, "name")))
          [] k = "visible" -> JBool(Truthy(GetOr(node.f, "visible", JBool(TRUE))))
          [] k = "locked" -> JBool(Truthy(GetOr(node.f, "locked", JBool(FALSE))))
          [] k = "frame" -> JObj(frame)
          [] k = "layout" -> JObj(layout)
          [] k = "text" -> JObj(text)])

should_include_node(node, include_invisible) ==
    IF include_invisible THEN TRUE
    ELSE Truthy(GetOr(node.f, "visible", JBool(TRUE)))

\* the loop of index_tree.visit that collects child_ids
RECURSIVE collect_child_ids(_, _)
collect_child_ids(children, include_invisible) ==
    IF children = <<>> THEN <<>>
    ELSE LET c == Head(children)
             rest == collect_child_ids(Tail(children), include_invisible)
         IN IF ~IsDict(c) THEN rest
            ELSE IF ~should_include_node(c, include_invisible) THEN rest
            ELSE IF IsNonEmptyStr(Get(c.f, "id")) THEN <<Get(c.f, "id").s>> \o rest
            ELSE rest

RECURSIVE visit(_, _, _, _, _, _)
RECURSIVE visit_children(_, _, _, _, _, _)

\* index_tree.visit: nodes after visiting node under parent_id at depth
visit(nodes, node, parent_id, depth, include_invisible, max_text_len) ==
    IF ~should_include_node(node, include_invisible) THEN nodes
    ELSE LET node_id == Get(node.f, "id") IN
    IF ~IsNonEmptyStr(node_id) THEN nodes
    ELSE IF node_id.s \in DOMAIN nodes THEN nodes
    ELSE LET children_raw == Get(node.f, "children")
             child_ids == IF IsList(children_raw)
                          THEN collect_child_ids(children_raw.q, include_invisible)
                          ELSE <<>>
             rec == [id |-> node_id.s,
                     name |-> PyStr(GetOr(node.f, "name", JStr(""))),
                     type |-> PyStr(GetOr(node.f, "type", JStr(""))),
                     parentId |-> parent_id,
                     depth |-> depth,
                     childIds |-> child_ids,
                     facts |-> node_facts(node, max_text_len)]
             nodes1 == Put(nodes, node_id.s, rec)
         IN IF IsList(children_raw)
            THEN visit_children(nodes1, children_raw.q, JStr(node_id.s), depth + 1,
                                include_invisible, max_text_len)
            ELSE nodes1

\* the loop of index_tree.visit that visits the children in document order
visit_children(nodes, children, parent_id, depth, include_invisible, max_text_len) ==
    IF children = <<>> THEN nodes
    ELSE LET c == Head(children)
             nodes1 == IF IsDict(c)
                       THEN visit(nodes, c, parent_id, depth, include_invisible, max_text_len)
                       ELSE nodes
         IN visit_children(nodes1, Tail(children), parent_id, depth,
                           include_invisible, max_text_len)

index_tree(root, include_invisible, max_text_len) ==
    IF ~IsNonEmptyStr(Get(root.f, "id"))
    THEN [ok |-> FALSE, error |-> "root node is missing a string 'id'"]
    ELSE [ok |-> TRUE,
          root_id |-> root.f["id"].s,
          nodes |-> visit(EmptyDict, root, JNull, 0, include_invisible, max_text_len)]

\* a variant of the loop that does not look the id up in the node map
RECURSIVE BfsLoopUnchecked(_, _, _, _)
BfsLoopUnchecked(nodes, q, seen, order) ==
    IF q = <<>> THEN order
    ELSE LET nid == Head(q) IN
         IF nid \in seen THEN BfsLoopUnchecked(nodes, Tail(q), seen, order)
         ELSE BfsLoopUnchecked(nodes,
                               Tail(q) \o (IF nid \in DOMAIN nodes
                                           THEN nodes[nid].childIds ELSE <<>>),
                               seen \cup {nid}, Append(order, nid))

\* the while loop of bfs_order
RECURSIVE bfs_loop(_, _, _, _)
bfs_loop(nodes, q, seen, order) ==
    IF q = <<>> THEN order
    ELSE LET nid == Head(q) IN
         IF nid \in seen THEN bfs_loop(nodes, Tail(q), seen, order)
         ELSE IF nid \notin DOMAIN nodes THEN bfs_loop(nodes, Tail(q), seen \cup {nid}, order)
         ELSE bfs_loop(nodes, Tail(q) \o nodes[nid].childIds, seen \cup {nid},
                       Append(order, nid))

bfs_order(nodes, root_id) == bfs_loop(nodes, <<root_id>>, {}, <<>>)

---------------------------------------------------------------------------
(* Commands.  Each returns the state file it leaves and what it reports:   *)
(* [cmd, rc, res], rc being the exit status.                               *)

NoOut == [cmd |-> "none", rc |-> 0]

Failed(cmd, f) == [file |-> f, out |-> [cmd |-> cmd, rc |-> 2]]

DEFAULT_MAX_TEXT_LEN == 200

\* init; stderr is what it prints with eprint: nothing, unless it fails
cmd_init(f, payload, ui_system, include_invisible, max_text_len) ==
    LET sel == select_root_node(payload) IN
    IF ~sel.ok THEN Failed("init", f)
    ELSE LET idx == index_tree(sel.root, include_invisible, max_text_len) IN
    IF ~idx.ok THEN Failed("init", f)
    ELSE LET bfs == bfs_order(idx.nodes, idx.root_id)
             state == [version |-> STATE_VERSION,
                       uiSystem |-> ui_system,
                       rootId |-> idx.root_id,
                       nodes |-> idx.nodes,
                       bfs |-> bfs,
                       decisions |-> EmptyDict]
         IN [file |-> save_state(state),
             out |-> [cmd |-> "init", rc |-> 0,
                      res |-> [rootId |-> idx.root_id,
                               nodeCount |-> Cardinality(DOMAIN idx.nodes),
                               bfsCount |-> Len(bfs)],
                      stderr |-> <<>>]]

---------------------------------------------------------------------------
(* Queries *)

node_skeleton(nodes, node_id) ==
    IF node_id \notin DOMAIN nodes THEN JNull
    ELSE LET n == nodes[node_id]
         IN [id |-> n.id, name |-> n.name, type |-> n.type, depth |-> n.depth,
             childCount |-> Len(n.childIds)]

\* the skeletons of the ids of child_ids that are in the node map, in order
RECURSIVE child_skeletons(_, _)
child_skeletons(nodes, child_ids) ==
    IF child_ids = <<>> THEN <<>>
    ELSE LET sk == node_skeleton(nodes, Head(child_ids))
             rest == child_skeletons(nodes, Tail(child_ids))
         IN IF sk = JNull THEN rest ELSE <<sk>> \o rest

RECURSIVE skeleton_tree(_, _, _)
RECURSIVE skeleton_children(_, _, _)

skeleton_tree(nodes, node_id, depth) ==
    LET sk == node_skeleton(nodes, node_id) IN
    IF sk = JNull THEN JNull
    ELSE IF depth <= 0 THEN sk
    ELSE [id |-> sk.id, name |-> sk.name, type |-> sk.type, depth |-> sk.depth,
          childCount |-> sk.childCount,
          children |-> skeleton_children(nodes, nodes[node_id].childIds, depth - 1)]

skeleton_children(nodes, child_ids, depth) ==
    IF child_ids = <<>> THEN <<>>
    ELSE LET child_sk == skeleton_tree(nodes, Head(child_ids), depth)
             rest == skeleton_children(nodes, Tail(child_ids), depth)
         IN IF child_sk = JNull THEN rest ELSE <<child_sk>> \o rest

\* skeleton [--node-id id] [--depth depth]; node_id "" is the option left out
cmd_skeleton(f, node_id, depth) ==
    LET ld == load_state(f) IN
    IF ~ld.ok THEN Failed("skeleton", f)
    ELSE LET nid == IF node_id # "" THEN node_id ELSE ld.state.rootId
             sk == skeleton_tree(ld.state.nodes, nid, depth)
         IN IF sk = JNull THEN Failed("skeleton", f)
            ELSE [file |-> f, out |-> [cmd |-> "skeleton", rc |-> 0, res |-> [node |-> sk]]]

cmd_children(f, nid) ==
    LET ld == load_state(f) IN
    IF ~ld.ok THEN Failed("children", f)
    ELSE IF nid \notin DOMAIN ld.state.nodes THEN Failed("children", f)
    ELSE [file |-> f,
          out |-> [cmd |-> "children", rc |-> 0,
                   res |-> [nodeId |-> nid,
                            children |-> child_skeletons(ld.state.nodes,
                                                         ld.state.nodes[nid].childIds)]]]

cmd_facts(f, nid) ==
    LET ld == load_state(f) IN
    IF ~ld.ok THEN Failed("facts", f)
    ELSE IF nid \notin DOMAIN ld.state.nodes THEN Failed("facts", f)
    ELSE [file |-> f,
          out |-> [cmd |-> "facts", rc |-> 0,
                   res |-> [nodeId |-> nid, facts |-> ld.state.nodes[nid].facts]]]

---------------------------------------------------------------------------
(* Traversal Cursor *)

\* the strings of the model that carry surrounding blanks, and str.strip() of them
Strip(s) ==
    CASE s = " UIButton " -> "UIButton"
      [] s = " " -> ""
      [] OTHER -> s

base_component_from_decision(decision) ==
    IF ~IsDict(decision) THEN JNull
    ELSE LET comp == Get(decision.f, "component") IN
    IF ~IsDict(comp) THEN JNull
    ELSE LET base == Get(comp.f, "base") IN
    IF IsStr(base) /\ Strip(base.s) # "" THEN JStr(Strip(base.s))
    ELSE JNull

requirements_for_child(parent_decision) ==
    LET base == base_component_from_decision(parent_decision) IN
    IF base = JNull THEN JObj(EmptyDict)
    ELSE CASE base.s = "UICollectionView" ->
                JObj([k \in {"mustUseComponentBase"} |-> JStr("UICollectionViewCell")])
           [] base.s = "UITableView" ->
                JObj([k \in {"mustUseComponentBase"} |-> JStr("UITableViewCell")])
           [] base.s = "UIButton" ->
                JObj([k \in {"allowedComponentBases", "role"} |->
                        IF k = "role" THEN JStr("button-contained")
                        ELSE JList(<<JStr("UILabel"), JStr("UIImageView")>>)])
           [] base.s = "List" ->
                JObj([k \in {"hint"} |->
                        JStr("List children should be row views (usually custom Views).")])
           [] base.s = "Button" ->
                JObj([k \in {"allowedComponentBases", "role"} |->
                        IF k = "role" THEN JStr("button-label")
                        ELSE JList(<<JStr("Text"), JStr("Image"), JStr("Label"), JStr("View")>>)])
           [] OTHER -> JObj(EmptyDict)

\* the scan of _next_node_id over the breadth-first order; "" is None
RECURSIVE next_scan(_, _)
next_scan(bfs, decisions) ==
    IF bfs = <<>> THEN ""
    ELSE IF Head(bfs) # "" /\ Head(bfs) \notin DOMAIN decisions THEN Head(bfs)
    ELSE next_scan(Tail(bfs), decisions)

\* a cursor that looks at the head of the order only
NextHeadOnly(state) ==
    IF state.bfs = <<>> THEN ""
    ELSE IF Head(state.bfs) \notin DOMAIN state.decisions THEN Head(state.bfs)
    ELSE ""

\* a cursor that scans the order from its end
RECURSIVE Reversed(_)
Reversed(q) == IF q = <<>> THEN <<>> ELSE Append(Reversed(Tail(q)), Head(q))

NextFromEnd(state) == next_scan(Reversed(state.bfs), state.decisions)

_next_node_id(state) == next_scan(state.bfs, state.decisions)

---------------------------------------------------------------------------
(* Hint Engine *)

Abs(n) == IF n < 0 THEN 0 - n ELSE n

\* add_pin: the text of a pin whose value is twice / 2; an integral value is
\* written as an integer, any other as a float
add_pin(key, twice) ==
    [key |-> key,
     text |-> key \o "=" \o
                (IF twice % 2 = 0 THEN ToString(twice \div 2)
                 ELSE (IF twice < 0 THEN "-" ELSE "") \o ToString(Abs(twice) \div 2) \o ".5")]

\* a variant of the anchors of one axis in which the trailing pin is the
\* positive inset
AnchorsPositiveInset(mode, keys, pos, size, extent) ==
    CASE mode = "MIN" -> <<add_pin(keys[1], 2 * pos)>>
      [] mode = "MAX" -> <<add_pin(keys[2], 2 * (extent - (pos + size)))>>
      [] mode = "CENTER" -> <<add_pin(keys[3], (2 * pos + size) - extent)>>
      [] mode = "STRETCH" -> <<add_pin(keys[1], 2 * pos),
                               add_pin(keys[2], 2 * (extent - (pos + size)))>>
      [] mode = "SCALE" -> <<add_pin(keys[1], 2 * pos)>>
      [] OTHER -> <<>>

\* the anchors of one axis: keys are the leading, trailing and centre pin,
\* pos and size the node's offset and extent, extent the parent's
axis_anchors(mode, keys, pos, size, extent) ==
    CASE mode = "MIN" -> <<add_pin(keys[1], 2 * pos)>>
      [] mode = "MAX" -> <<add_pin(keys[2], 0 - 2 * (extent - (pos + size)))>>
      [] mode = "CENTER" -> <<add_pin(keys[3], (2 * pos + size) - extent)>>
      [] mode = "STRETCH" -> <<add_pin(keys[1], 2 * pos),
                               add_pin(keys[2], 0 - 2 * (extent - (pos + size)))>>
      [] mode = "SCALE" -> <<add_pin(keys[1], 2 * pos)>>
      [] OTHER -> <<>>

\* the loop that keeps the first pin of each key
RECURSIVE uniq_pins(_, _)
uniq_pins(pins, seen_keys) ==
    IF pins = <<>> THEN <<>>
    ELSE IF Head(pins).key \in seen_keys THEN uniq_pins(Tail(pins), seen_keys)
    ELSE <<Head(pins)>> \o uniq_pins(Tail(pins), seen_keys \cup {Head(pins).key})

RECURSIVE join_pins(_)
join_pins(pins) ==
    IF pins = <<>> THEN ""
    ELSE IF Len(pins) = 1 THEN pins[1].text
    ELSE pins[1].text \o ":" \o join_pins(Tail(pins))

\* compute_constraint_hints up to the list uniq_pins; ok is FALSE where the
\* function returns None
constraint_pins(nodes, node_id, parent_id) ==
    LET none == [ok |-> FALSE, pins |-> <<>>] IN
    IF ~IsNonEmptyStr(parent_id) THEN none
    ELSE IF node_id \notin DOMAIN nodes \/ parent_id.s \notin DOMAIN nodes THEN none
    ELSE LET facts == nodes[node_id].facts
             pfacts == nodes[parent_id.s].facts
             layout == GetOr(facts.f, "layout", JObj(EmptyDict))
             frame == GetOr(facts.f, "frame", JObj(EmptyDict))
             pframe == GetOr(pfacts.f, "frame", JObj(EmptyDict))
             parent_layout == GetOr(pfacts.f, "layout", JObj(EmptyDict))
             parent_layout_mode == Upper(PyStr(GetOr(parent_layout.f, "layoutMode", JStr(""))))
             child_positioning == Upper(PyStr(GetOr(layout.f, "layoutPositioning", JStr(""))))
             constraints == Get(layout.f, "constraints")
             x == Get(frame.f, "x")
             y == Get(frame.f, "y")
             w == Get(frame.f, "width")
             h == Get(frame.f, "height")
             pw == Get(pframe.f, "width")
             ph == Get(pframe.f, "height")
         IN IF parent_layout_mode \in {"HORIZONTAL", "VERTICAL"} /\ child_positioning # "ABSOLUTE"
            THEN none
            ELSE IF ~IsDict(constraints) THEN none
            ELSE IF ~(\A v \in {x, y, w, h, pw, ph} : is_number(v)) THEN none
            ELSE LET horiz == Upper(PyStr(GetOr(constraints.f, "horizontal", JStr(""))))
                     vert == Upper(PyStr(GetOr(constraints.f, "vertical", JStr(""))))
                     sizing_h == Upper(PyStr(GetOr(layout.f, "layoutSizingHorizontal", JStr(""))))
                     sizing_v == Upper(PyStr(GetOr(layout.f, "layoutSizingVertical", JStr(""))))
                     pins == axis_anchors(horiz, <<"L", "R", "CX">>, x.n, w.n, pw.n)
                               \o axis_anchors(vert, <<"T", "B", "CY">>, y.n, h.n, ph.n)
                               \o (IF sizing_h \in {"FIXED", ""}
                                   THEN <<add_pin("W", 2 * w.n)>> ELSE <<>>)
                               \o (IF sizing_v \in {"FIXED", ""}
                                   THEN <<add_pin("H", 2 * h.n)>> ELSE <<>>)
                 IN IF pins = <<>> THEN none
                    ELSE [ok |-> TRUE, pins |-> uniq_pins(pins, {})]

\* compute_constraint_hints: the pin string, or JNull for None
compute_constraint_hints(nodes, node_id, parent_id) ==
    LET r == constraint_pins(nodes, node_id, parent_id)
    IN IF r.ok THEN JStr("pins=" \o join_pins(r.pins)) ELSE JNull

TABLE_TOKENS == {"table", "tableview", "list", "feed"}

COLLECTION_TOKENS == {"collection", "collectionview", "grid", "carousel", "gallery"}

SCROLL_TOKENS == {"scroll", "scrollview", "scroller", "pager", "pageview"}

BUTTON_TOKENS == {"button", "btn", "cta"}

ICON_TOKENS == {"icon", "image", "img", "avatar", "photo", "logo", "thumbnail", "thumb"}

LABEL_TOKENS ==
    {"label", "title", "subtitle", "caption", "headline", "body", "description", "text"}

Hint(base, reason) ==
    JObj([k \in {"base", "reasons"} |->
            IF k = "base" THEN JStr(base) ELSE JList(<<JStr(reason)>>)])

\* a variant that looks at the name before the auto-layout mode
HintNameFirst(node_rec, ui_system) ==
    LET uikit == ui_system = "UIKit"
        figma_type == Upper(node_rec.type)
        tokens == GetOr(node_rec.facts.f, "nameTokens", JList(<<>>))
        has == {tokens.q[i].s : i \in {j \in 1..Len(tokens.q) : IsStr(tokens.q[j])}}
        layout == GetOr(node_rec.facts.f, "layout", JObj(EmptyDict))
        layout_mode == Upper(PyStr(GetOr(layout.f, "layoutMode", JStr(""))))
    IN CASE figma_type = "TEXT" ->
              Hint(IF uikit THEN "UILabel" ELSE "Text", "figma_type=TEXT")
         [] figma_type = "IMAGE" ->
              Hint(IF uikit THEN "UIImageView" ELSE "Image", "figma_type=IMAGE")
         [] has \cap BUTTON_TOKENS # {} ->
              Hint(IF uikit THEN "UIButton" ELSE "Button", "name_suggests_button")
         [] layout_mode \in {"HORIZONTAL", "VERTICAL"} ->
              Hint(IF uikit THEN "UIStackView"
                   ELSE IF layout_mode = "HORIZONTAL" THEN "HStack" ELSE "VStack",
                   "layoutMode=" \o layout_mode)
         [] OTHER -> Hint(IF uikit THEN "UIView" ELSE "View", "default")

\* component_hint_from_node_record
component_hint_from_node_record(node_rec, ui_system) ==
    LET uikit == ui_system = "UIKit"
        figma_type == Upper(node_rec.type)
        tokens == GetOr(node_rec.facts.f, "nameTokens", JList(<<>>))
        has == {tokens.q[i].s : i \in {j \in 1..Len(tokens.q) : IsStr(tokens.q[j])}}
        layout == GetOr(node_rec.facts.f, "layout", JObj(EmptyDict))
        layout_mode == Upper(PyStr(GetOr(layout.f, "layoutMode", JStr(""))))
        is_table_hint == has \cap TABLE_TOKENS # {}
        is_collection_hint == has \cap COLLECTION_TOKENS # {}
        is_scroll_hint == has \cap SCROLL_TOKENS # {}
    IN CASE figma_type = "TEXT" ->
              Hint(IF uikit THEN "UILabel" ELSE "Text", "figma_type=TEXT")
         [] figma_type = "IMAGE" ->
              Hint(IF uikit THEN "UIImageView" ELSE "Image", "figma_type=IMAGE")
         [] OTHER ->
    IF layout_mode \in {"HORIZONTAL", "VERTICAL"}
    THEN Hint(IF uikit THEN "UIStackView"
              ELSE IF layout_mode = "HORIZONTAL" THEN "HStack" ELSE "VStack",
              "layoutMode=" \o layout_mode)
    ELSE IF is_table_hint \/ is_collection_hint \/ is_scroll_hint
    THEN Hint(IF uikit
              THEN IF is_collection_hint THEN "UICollectionView"
                   ELSE IF is_table_hint THEN "UITableView" ELSE "UICollectionView"
              ELSE IF is_table_hint /\ ~is_collection_hint THEN "List" ELSE "ScrollView",
              "name_suggests_list_or_scroll")
    ELSE IF has \cap BUTTON_TOKENS # {}
    THEN Hint(IF uikit THEN "UIButton" ELSE "Button", "name_suggests_button")
    ELSE IF has \cap ICON_TOKENS # {}
    THEN Hint(IF uikit THEN "UIImageView" ELSE "Image", "name_suggests_image")
    ELSE IF has \cap LABEL_TOKENS # {}
    THEN Hint(IF uikit THEN "UILabel" ELSE "Text", "name_suggests_text")
    ELSE Hint(IF uikit THEN "UIView" ELSE "View", "default")

\* cell_sizing_hint_from_node_record
cell_sizing_hint_from_node_record(node_rec) ==
    LET layout == GetOr(node_rec.facts.f, "layout", JObj(EmptyDict))
        frame == GetOr(node_rec.facts.f, "frame", JObj(EmptyDict))
        h == Upper(PyStr(GetOr(layout.f, "layoutSizingHorizontal", JStr(""))))
        v == Upper(PyStr(GetOr(layout.f, "layoutSizingVertical", JStr(""))))
    IN IF h = "HUG" \/ v = "HUG"
       THEN JObj([k \in {"cellSizing", "reason"} |->
                    IF k = "cellSizing" THEN JStr("selfSizing")
                    ELSE JStr("layoutSizingHorizontal/Vertical has HUG")])
       ELSE IF is_number(Get(frame.f, "width")) /\ is_number(Get(frame.f, "height"))
       THEN JObj([k \in {"cellSizing", "fixedSize", "reason"} |->
                    CASE k = "cellSizing" -> JStr("fixed")
                      [] k = "fixedSize" ->
                            JObj([q \in {"width", "height"} |-> frame.f[q]])
                      [] k = "reason" -> JStr("no HUG sizing; using frame width/height")])
       ELSE JObj([k \in {"cellSizing", "reason"} |->
                    IF k = "cellSizing" THEN JStr("fixed")
                    ELSE JStr("no HUG sizing; missing frame width/height")])

\* content_mode_hint_from_facts; JNull is None
content_mode_hint_from_facts(facts, ui_system) ==
    LET image == Get(facts.f, "image") IN
    IF ~IsDict(image) THEN JNull
    ELSE LET scale == Upper(PyStr(GetOr(image.f, "scaleMode", JStr(""))))
         IN IF ui_system = "UIKit"
            THEN CASE scale = "FIT" -> JStr("scaleAspectFit")
                   [] scale = "FILL" -> JStr("scaleAspectFill")
                   [] scale = "STRETCH" -> JStr("scaleToFill")
                   [] scale = "TILE" -> JStr("center")
                   [] OTHER -> JNull
            ELSE CASE scale = "FIT" -> JStr("aspectRatio(.fit)")
                   [] scale = "FILL" -> JStr("aspectRatio(.fill)")
                   [] OTHER -> JNull

\* the hints object of cmd_next: a key for each hint that is not empty
next_hints(state, nid, req) ==
    LET n == state.nodes[nid]
        pins == compute_constraint_hints(state.nodes, nid, n.parentId)
        cm == content_mode_hint_from_facts(n.facts, state.uiSystem)
        cell == /\ state.uiSystem = "UIKit"
                /\ Get(req.f, "mustUseComponentBase")
                      \in {JStr("UITableViewCell"), JStr("UICollectionViewCell")}
        keys == {"componentHint"}
                   \cup (IF pins # JNull THEN {"pinsCandidate"} ELSE {})
                   \cup (IF cell THEN {"cellSizingHint"} ELSE {})
                   \cup (IF cm # JNull THEN {"contentModeHint"} ELSE {})
    IN JObj([k \in keys |->
               CASE k = "pinsCandidate" -> pins
                 [] k = "componentHint" -> component_hint_from_node_record(n, state.uiSystem)
                 [] k = "cellSizingHint" -> cell_sizing_hint_from_node_record(n)
                 [] k = "contentModeHint" -> cm])

\* next: the bundle for the next undecided node
cmd_next(f) ==
    LET ld == load_state(f) IN
    IF ~ld.ok THEN Failed("next", f)
    ELSE LET state == ld.state
             nodes == state.nodes
             decisions == state.decisions
             nid == _next_node_id(state)
         IN
    IF nid = "" THEN [file |-> f, out |-> [cmd |-> "next", rc |-> 0, res |-> [done |-> TRUE]]]
    ELSE IF nid \notin DOMAIN nodes THEN Failed("next", f)
    ELSE LET n == nodes[nid]
             parent_id == n.parentId
             parent_sk == IF IsStr(parent_id) THEN node_skeleton(nodes, parent_id.s) ELSE JNull
             parent_decision == IF IsStr(parent_id) THEN Get(decisions, parent_id.s) ELSE JNull
             req == requirements_for_child(parent_decision)
         IN [file |-> f,
             out |-> [cmd |-> "next", rc |-> 0,
                      res |-> [done |-> FALSE,
                               uiSystem |-> state.uiSystem,
                               node |-> node_skeleton(nodes, nid),
                               parent |-> parent_sk,
                               parentDecision |-> parent_decision,
                               requirements |-> req,
                               facts |-> n.facts,
                               children |-> child_skeletons(nodes, n.childIds),
                               hints |-> next_hints(state, nid, req)]]]

cmd_status(f) ==
    LET ld == load_state(f) IN
    IF ~ld.ok THEN Failed("status", f)
    ELSE LET state == ld.state
             total == Cardinality(DOMAIN state.nodes)
             decided == Cardinality(DOMAIN state.decisions)
         IN [file |-> f,
             out |-> [cmd |-> "status", rc |-> 0,
                      res |-> [uiSystem |-> state.uiSystem,
                               rootId |-> state.rootId,
                               nodeCount |-> total,
                               decidedCount |-> decided,
                               remainingCount |-> IF total - decided > 0 THEN total - decided ELSE 0,
                               bfsCount |-> Len(state.bfs),
                               nextNodeId |-> _next_node_id(state)]]]

---------------------------------------------------------------------------
(* Decision Store *)

\* the order in which the model's JSON objects list the keys that are node ids
KeyOrder == <<UnknownId>> \o IdNames \o <<"">>

ItemKeys(d) == SelectSeq(KeyOrder, LAMBDA k : k \in DOMAIN d)

\* read_json of something that is not JSON (an empty stdin, a broken file)
Unreadable == [t |-> "unreadable"]

\* a list branch that leaves the id among the decision's fields
RECURSIVE ListKeepingId(_)
ListKeepingId(items) ==
    IF items = <<>> THEN <<>>
    ELSE LET item == Head(items)
             rest == ListKeepingId(Tail(items))
         IN IF ~IsDict(item) THEN rest
            ELSE IF ~IsNonEmptyStr(Get(item.f, "id")) THEN rest
            ELSE <<[id |-> item.f["id"].s, decision |-> item]>> \o rest

\* the list branch of normalize_patch_payload
RECURSIVE normalize_list(_)
normalize_list(items) ==
    IF items = <<>> THEN <<>>
    ELSE LET item == Head(items)
             rest == normalize_list(Tail(items))
         IN IF ~IsDict(item) THEN rest
            ELSE IF ~IsNonEmptyStr(Get(item.f, "id")) THEN rest
            ELSE <<[id |-> item.f["id"].s, decision |-> JObj(Pop(item.f, "id"))]>> \o rest

\* the {"decisions": {...}} branch of normalize_patch_payload
RECURSIVE normalize_map(_, _)
normalize_map(decisions, keys) ==
    IF keys = <<>> THEN <<>>
    ELSE LET nid == Head(keys)
             dec == decisions[nid]
             rest == normalize_map(decisions, Tail(keys))
         IN IF nid = "" \/ ~IsDict(dec) THEN rest
            ELSE <<[id |-> nid, decision |-> dec]>> \o rest

\* a normalisation that takes every other payload for an empty batch
NormalizeLenient(payload) ==
    IF IsList(payload) THEN [ok |-> TRUE, patches |-> normalize_list(payload.q)]
    ELSE IF IsDict(payload) /\ IsDict(GetOr(payload.f, "decisions", JNull))
    THEN [ok |-> TRUE,
          patches |-> normalize_map(payload.f["decisions"].f,
                                    ItemKeys(payload.f["decisions"].f))]
    ELSE IF IsDict(payload) /\ IsNonEmptyStr(Get(payload.f, "id"))
    THEN [ok |-> TRUE,
          patches |-> <<[id |-> payload.f["id"].s, decision |-> JObj(Pop(payload.f, "id"))]>>]
    ELSE [ok |-> TRUE, patches |-> <<>>]

normalize_patch_payload(payload) ==
    IF IsList(payload) THEN [ok |-> TRUE, patches |-> normalize_list(payload.q)]
    ELSE IF IsDict(payload) /\ "decisions" \in DOMAIN payload.f
                            /\ IsDict(payload.f["decisions"])
    THEN [ok |-> TRUE,
          patches |-> normalize_map(payload.f["decisions"].f,
                                    ItemKeys(payload.f["decisions"].f))]
    ELSE IF IsDict(payload) /\ IsNonEmptyStr(Get(payload.f, "id"))
    THEN [ok |-> TRUE,
          patches |-> <<[id |-> payload.f["id"].s, decision |-> JObj(Pop(payload.f, "id"))]>>]
    ELSE [ok |-> FALSE, error |-> "unsupported patch JSON shape"]

\* a loop that merges the fields of a decision into the stored one
MergeFields(old, new) ==
    [k \in DOMAIN old \cup DOMAIN new |-> IF k \in DOMAIN new THEN new[k] ELSE old[k]]

RECURSIVE ApplyMerging(_, _, _, _)
ApplyMerging(nodes, decisions, applied, patches) ==
    IF patches = <<>> THEN [decisions |-> decisions, applied |-> applied]
    ELSE LET p == Head(patches) IN
         IF p.id \notin DOMAIN nodes \/ ~IsDict(p.decision)
         THEN ApplyMerging(nodes, decisions, applied, Tail(patches))
         ELSE LET old == IF p.id \in DOMAIN decisions THEN decisions[p.id].f ELSE EmptyDict
              IN ApplyMerging(nodes, Put(decisions, p.id, JObj(MergeFields(old, p.decision.f))),
                              Append(applied, p.id), Tail(patches))

\* a loop that stops at the first unknown id
RECURSIVE ApplyAborting(_, _, _, _)
ApplyAborting(nodes, decisions, applied, patches) ==
    IF patches = <<>> THEN [decisions |-> decisions, applied |-> applied]
    ELSE LET p == Head(patches) IN
         IF p.id \notin DOMAIN nodes
         THEN [decisions |-> decisions, applied |-> applied]
         ELSE IF ~IsDict(p.decision)
         THEN ApplyAborting(nodes, decisions, applied, Tail(patches))
         ELSE ApplyAborting(nodes, Put(decisions, p.id, p.decision),
                            Append(applied, p.id), Tail(patches))

\* the loop of cmd_apply: [decisions, applied] after the patches
RECURSIVE apply_patches(_, _, _, _)
apply_patches(nodes, decisions, applied, patches) ==
    IF patches = <<>> THEN [decisions |-> decisions, applied |-> applied]
    ELSE LET p == Head(patches) IN
         IF p.id \notin DOMAIN nodes
         THEN apply_patches(nodes, decisions, applied, Tail(patches))
         ELSE IF ~IsDict(p.decision)
         THEN apply_patches(nodes, decisions, applied, Tail(patches))
         ELSE apply_patches(nodes, Put(decisions, p.id, p.decision),
                            Append(applied, p.id), Tail(patches))

\* an apply that keeps only the batch it was given
ApplyBatchOnly(f, patch_payload) ==
    LET ld == load_state(f) IN
    IF ~ld.ok THEN Failed("apply", f)
    ELSE IF patch_payload = Unreadable THEN Failed("apply", f)
    ELSE LET norm == normalize_patch_payload(patch_payload) IN
    IF ~norm.ok THEN Failed("apply", f)
    ELSE LET state == ld.state
             r == apply_patches(state.nodes, EmptyDict, <<>>, norm.patches)
             state1 == [state EXCEPT !.decisions = r.decisions]
         IN [file |-> save_state(state1),
             out |-> [cmd |-> "apply", rc |-> 0,
                      res |-> [applied |-> r.applied, appliedCount |-> Len(r.applied)]]]

\* an apply that drops the decided ids from the stored order
ApplyAndTrim(f, patch_payload) ==
    LET ld == load_state(f) IN
    IF ~ld.ok THEN Failed("apply", f)
    ELSE IF patch_payload = Unreadable THEN Failed("apply", f)
    ELSE LET norm == normalize_patch_payload(patch_payload) IN
    IF ~norm.ok THEN Failed("apply", f)
    ELSE LET state == ld.state
             r == apply_patches(state.nodes, state.decisions, <<>>, norm.patches)
             state1 == [state EXCEPT !.decisions = r.decisions,
                                     !.bfs = SelectSeq(state.bfs,
                                                LAMBDA id : id \notin DOMAIN r.decisions)]
         IN [file |-> save_state(state1),
             out |-> [cmd |-> "apply", rc |-> 0,
                      res |-> [applied |-> r.applied, appliedCount |-> Len(r.applied)]]]

cmd_apply(f, patch_payload) ==
    LET ld == load_state(f) IN
    IF ~ld.ok THEN Failed("apply", f)
    ELSE IF patch_payload = Unreadable THEN Failed("apply", f)
    ELSE LET norm == normalize_patch_payload(patch_payload) IN
    IF ~norm.ok THEN Failed("apply", f)
    ELSE LET state == ld.state
             r == apply_patches(state.nodes, state.decisions, <<>>, norm.patches)
             state1 == [state EXCEPT !.decisions = r.decisions]
         IN [file |-> save_state(state1),
             out |-> [cmd |-> "apply", rc |-> 0,
                      res |-> [applied |-> r.applied, appliedCount |-> Len(r.applied)]]]

---------------------------------------------------------------------------
(* Exporter *)

\* Python's recursion limit hit (RecursionError): childIds that lead back to a node
Overflow == [t |-> "overflow"]

RECURSIVE build_export_tree(_, _, _)
RECURSIVE build_export_children(_, _, _)

\* build_export_tree; fuel counts the calls left on the stack.  A chain of
\* calls longer than the node map repeats a node, and then never ends.
build_export_tree(state, node_id, fuel) ==
    IF fuel = 0 THEN Overflow
    ELSE LET nodes == state.nodes
             known == node_id \in DOMAIN nodes
             source == JObj([k \in {"id", "name", "type"} |->
                          IF ~known THEN JNull
                          ELSE CASE k = "id" -> JStr(nodes[node_id].id)
                                 [] k = "name" -> JStr(nodes[node_id].name)
                                 [] k = "type" -> JStr(nodes[node_id].type)])
             decision == Get(state.decisions, node_id)
             decided == IsDict(decision) /\ Truthy(decision)
             base == IF decided
                     THEN [k \in {"source"} \cup DOMAIN decision.f |->
                              IF k \in DOMAIN decision.f THEN decision.f[k] ELSE source]
                     ELSE [k \in {"source", "component", "warnings"} |->
                              CASE k = "source" -> source
                                [] k = "component" ->
                                      JObj([b \in {"base"} |-> JStr("__UNDECIDED__")])
                                [] k = "warnings" -> JList(<<JStr("missing_decision")>>)]
             child_ids == IF known THEN nodes[node_id].childIds ELSE <<>>
             children_out == build_export_children(state, child_ids, fuel - 1)
         IN IF children_out = Overflow THEN Overflow
            ELSE JObj(Put(base, "children", children_out))

\* the loop of build_export_tree over child_ids: the list children_out
build_export_children(state, child_ids, fuel) ==
    IF child_ids = <<>> THEN JList(<<>>)
    ELSE LET rest == build_export_children(state, Tail(child_ids), fuel) IN
         IF rest = Overflow THEN Overflow
         ELSE IF Head(child_ids) \notin DOMAIN state.nodes THEN rest
         ELSE LET c == build_export_tree(state, Head(child_ids), fuel) IN
              IF c = Overflow THEN Overflow ELSE JList(<<c>> \o rest.q)

\* get_component_base_from_spec; "" is None
get_component_base_from_spec(spec_node) ==
    IF ~IsDict(spec_node) THEN ""
    ELSE LET comp == Get(spec_node.f, "component") IN
    IF ~IsDict(comp) THEN ""
    ELSE LET base == Get(comp.f, "base") IN
    IF IsStr(base) /\ Strip(base.s) # "" THEN Strip(base.s) ELSE ""

\* child_source_id of absorb_children_in_export_tree; "" is None
child_source_id(child) ==
    LET src == Get(child.f, "source") IN
    IF IsDict(src) /\ IsNonEmptyStr(Get(src.f, "id")) THEN src.f["id"].s ELSE ""

child_properties(child) ==
    LET p == Get(child.f, "properties") IN IF IsDict(p) THEN p.f ELSE EmptyDict

\* the first child whose component base is the given one; 0 is None
first_with_base(children, base) ==
    LET S == {i \in 1..Len(children) : get_component_base_from_spec(children[i]) = base}
    IN IF S = {} THEN 0 ELSE CHOOSE i \in S : \A j \in S : i <= j

\* a variant that takes the title and records no titleFrom
AbsorbLabelUntraced(props, c, is_uikit) ==
    LET cp == child_properties(c)
    IN IF "title" \notin DOMAIN props /\ IsStr(Get(cp, "text"))
       THEN Put(props, "title", cp["text"]) ELSE props

\* what a button takes from its label child (colour and font under UIKit only)
absorb_label(props, c, is_uikit) ==
    LET cp == child_properties(c)
        cid == child_source_id(c)
        p1 == IF "title" \notin DOMAIN props /\ IsStr(Get(cp, "text"))
              THEN LET p == Put(props, "title", cp["text"])
                   IN IF cid # "" THEN Put(p, "titleFrom", JStr(cid)) ELSE p
              ELSE props
        p2 == IF is_uikit /\ "titleColor" \notin DOMAIN p1 /\ IsDict(Get(cp, "textColor"))
              THEN Put(p1, "titleColor", cp["textColor"]) ELSE p1
    IN IF is_uikit /\ "titleFont" \notin DOMAIN p2 /\ IsDict(Get(cp, "font"))
       THEN Put(p2, "titleFont", cp["font"]) ELSE p2

\* what a button takes from its image child (content mode under UIKit only)
absorb_image(props, c, is_uikit) ==
    LET cp == child_properties(c)
        cid == child_source_id(c)
        p1 == IF "image" \notin DOMAIN props /\ IsDict(Get(cp, "image"))
              THEN LET p == Put(props, "image", cp["image"])
                   IN IF cid # "" THEN Put(p, "imageFrom", JStr(cid)) ELSE p
              ELSE props
    IN IF is_uikit /\ "imageContentMode" \notin DOMAIN p1 /\ IsStr(Get(cp, "contentMode"))
       THEN Put(p1, "imageContentMode", cp["contentMode"]) ELSE p1

\* the UIButton / Button branch: the new properties and the indices to remove
absorb_into_button(props, children, label_base, image_base, is_uikit) ==
    LET label_i == first_with_base(children, label_base)
        image_i == first_with_base(children, image_base)
        p1 == IF label_i # 0 THEN absorb_label(props, children[label_i], is_uikit) ELSE props
        p2 == IF image_i # 0 THEN absorb_image(p1, children[image_i], is_uikit) ELSE p1
    IN [props |-> p2, remove |-> {label_i, image_i} \ {0}]

\* the UIImageView / Image branch
absorb_into_image(props, children, image_base) ==
    IF IsDict(Get(props, "image")) THEN [props |-> props, remove |-> {}]
    ELSE LET S == {i \in 1..Len(children) :
                     /\ get_component_base_from_spec(children[i]) = image_base
                     /\ IsDict(Get(child_properties(children[i]), "image"))}
         IN IF S = {} THEN [props |-> props, remove |-> {}]
            ELSE LET i == CHOOSE x \in S : \A y \in S : x <= y
                     cid == child_source_id(children[i])
                     p == Put(props, "image", child_properties(children[i])["image"])
                 IN [props |-> IF cid # "" THEN Put(p, "imageFrom", JStr(cid)) ELSE p,
                     remove |-> {i}]

\* the list without the elements at the given indices
without_indices(q, remove) ==
    LET keep == SortedSeq((1..Len(q)) \ remove)
    IN [j \in 1..Len(keep) |-> q[keep[j]]]

\* absorb_children_in_export_tree: the export node after the in-place update
RECURSIVE absorb_children_in_export_tree(_, _)
absorb_children_in_export_tree(spec_node, ui_system) ==
    IF ~IsDict(spec_node) THEN spec_node
    ELSE LET kids == Get(spec_node.f, "children")
             f1 == IF IsList(kids)
                   THEN Put(spec_node.f, "children",
                            JList([i \in 1..Len(kids.q) |->
                                     absorb_children_in_export_tree(kids.q[i], ui_system)]))
                   ELSE spec_node.f
             base == get_component_base_from_spec(JObj(f1))
             children == Get(f1, "children")
         IN IF base = "" THEN JObj(f1)
            ELSE IF ~IsList(children) THEN JObj(f1)
            ELSE IF Len(children.q) = 0 THEN JObj(f1)
            ELSE LET f2 == IF IsDict(Get(f1, "properties")) THEN f1
                           ELSE Put(f1, "properties", JObj(EmptyDict))
                     props == f2["properties"].f
                     r == CASE ui_system = "UIKit" /\ base = "UIButton" ->
                                 absorb_into_button(props, children.q, "UILabel", "UIImageView", TRUE)
                            [] ui_system = "UIKit" /\ base = "UIImageView" ->
                                 absorb_into_image(props, children.q, "UIImageView")
                            [] ui_system = "SwiftUI" /\ base = "Button" ->
                                 absorb_into_button(props, children.q, "Text", "Image", FALSE)
                            [] ui_system = "SwiftUI" /\ base = "Image" ->
                                 absorb_into_image(props, children.q, "Image")
                            [] OTHER -> [props |-> props, remove |-> {}]
                     f3 == Put(f2, "properties", JObj(r.props))
                 IN IF r.remove = {} THEN JObj(f3)
                    ELSE JObj(Put(f3, "children", JList(without_indices(children.q, r.remove))))

\* the paths --output can name: "" is no --output (stdout), OtherPath a file
\* of its own, StatePath the file that --state names
OtherPath == "spec.json"

StatePath == ".ai_tmp/figma_ios_state.json"

Outputs == {"", OtherPath, StatePath}

\* export [--no-absorb] [--output path]; res is the document written, to
\* stdout or to the path; output and no_absorb are the options of the call
cmd_export(f, no_absorb, output) ==
    LET ld == load_state(f) IN
    IF ~ld.ok THEN Failed("export", f)
    ELSE LET state == ld.state
             tree == build_export_tree(state, state.rootId, Cardinality(DOMAIN state.nodes) + 1)
         IN IF tree = Overflow THEN Failed("export", f)
            ELSE LET doc == [uiSystem |-> state.uiSystem,
                             root |-> IF no_absorb THEN tree
                                      ELSE absorb_children_in_export_tree(tree, state.uiSystem)]
                 IN [file |-> IF output = StatePath THEN [exists |-> TRUE, doc |-> doc] ELSE f,
                     out |-> [cmd |-> "export", rc |-> 0, res |-> doc, output |-> output,
                             no_absorb |-> no_absorb]]

---------------------------------------------------------------------------
(* Validator *)

\* the keys of the node map in the order Python iterates them, the order of
\* insertion: init inserts in document order, and the trees of the model
\* name their objects in document order
NodeKeys(nodes) == SelectSeq(IdNames, LAMBDA k : k \in DOMAIN nodes)

\* parse_pins, the list of errors: the pin strings of the model and what the
\* parser says of each
parse_pins(pins) ==
    IF ~IsStr(pins) THEN <<"pins_not_a_string">>
    ELSE CASE Strip(pins.s) = "" -> <<"pins_not_a_string">>
           [] pins.s = "pins=L=0:R=-6" -> <<>>
           [] pins.s = "pins=" -> <<"pins_empty">>
           [] pins.s = "pins=Q=1" -> <<"pins_unknown_key:Q">>
           [] pins.s = "pins=L=x" -> <<"pins_bad_value:L=x">>
           [] pins.s = "pins=L" -> <<"pins_bad_part:L">>
           [] pins.s = "pins=:" -> <<"pins_no_pairs">>
           [] pins.s = "L=0" -> <<"pins_missing_prefix">>

Err(node_id, msg, detail) == [nodeId |-> node_id, error |-> msg, detail |-> detail]

Warn(node_id, msg, detail) == [nodeId |-> node_id, warning |-> msg, detail |-> detail]

When(cond, item) == IF cond THEN <<item>> ELSE <<>>

\* the checks of a layout object
layout_checks(node_id, layout) ==
    LET kind == Get(layout.f, "kind")
        pins == Get(layout.f, "pins")
        perr == IF pins = JNull THEN <<>> ELSE parse_pins(pins)
    IN [errors |->
            When(kind # JNull /\ ~IsStr(kind), Err(node_id, "layout_kind_not_string", JNull))
              \o When(perr # <<>>,
                      Err(node_id, "invalid_pins_string",
                          JList([i \in 1..Len(perr) |-> JStr(perr[i])])))
              \o When(kind = JStr("stack")
                        /\ Get(layout.f, "axis") \notin {JStr("horizontal"), JStr("vertical")},
                      Err(node_id, "stack_axis_missing_or_invalid", JNull)),
        warnings |->
            When(IsStr(kind) /\ kind.s \notin {"root", "stack", "stackItem", "pins", "list", "scroll"},
                 Warn(node_id, "layout_kind_unknown", kind))]

\* the cell sizing rules (UIKit)
cell_checks(node_id, layout) ==
    IF ~IsDict(layout) THEN <<Err(node_id, "cell_missing_layout", JNull)>>
    ELSE LET cs == Get(layout.f, "cellSizing")
             fs == Get(layout.f, "fixedSize")
         IN When(cs \notin {JStr("selfSizing"), JStr("fixed")},
                 Err(node_id, "cellSizing_missing_or_invalid", JNull))
              \o When(cs = JStr("fixed")
                        /\ ~(/\ IsDict(fs)
                             /\ is_number(Get(fs.f, "width"))
                             /\ is_number(Get(fs.f, "height"))),
                      Err(node_id, "fixed_cell_requires_fixedSize_width_height", JNull))

\* the body of the first loop of cmd_validate, for one node
decision_checks(node_id, decisions, ui_system) ==
    LET dec == Get(decisions, node_id) IN
    IF dec = JNull
    THEN [errors |-> <<>>, warnings |-> <<Warn(node_id, "missing_decision", JNull)>>]
    ELSE IF ~IsDict(dec)
    THEN [errors |-> <<Err(node_id, "decision_not_object", JNull)>>, warnings |-> <<>>]
    ELSE LET comp == Get(dec.f, "component") IN
    IF ~IsDict(comp)
    THEN [errors |-> <<Err(node_id, "missing_component_object", JNull)>>, warnings |-> <<>>]
    ELSE LET base == Get(comp.f, "base")
             layout0 == Get(dec.f, "layout")
             layout == IF IsDict(layout0) THEN layout0 ELSE JNull
             lc == IF IsDict(layout) THEN layout_checks(node_id, layout)
                   ELSE [errors |-> <<>>, warnings |-> <<>>]
             is_cell == /\ ui_system = "UIKit"
                        /\ IsStr(base)
                        /\ Strip(base.s) \in {"UITableViewCell", "UICollectionViewCell"}
         IN [errors |->
                 When(~IsStr(base) \/ Strip(base.s) = "",
                      Err(node_id, "missing_component_base", JNull))
                   \o When(layout0 # JNull /\ ~IsDict(layout0),
                           Err(node_id, "layout_not_object", JNull))
                   \o lc.errors
                   \o (IF is_cell THEN cell_checks(node_id, layout) ELSE <<>>),
             warnings |-> lc.warnings]

Detail(parent, fields) ==
    JObj([k \in DOMAIN fields \cup {"parent"} |->
            IF k = "parent" THEN JStr(parent) ELSE JStr(fields[k])])

\* a variant of the list container rule that accepts either cell class
ChildCheckAnyCell(cid, node_id, parent_base, decisions, ui_system) ==
    LET cb == base_component_from_decision(Get(decisions, cid))
        must == IF parent_base = "UICollectionView" THEN "UICollectionViewCell"
                ELSE "UITableViewCell"
    IN IF ui_system = "UIKit" /\ parent_base \in {"UICollectionView", "UITableView"}
       THEN IF cb = JNull
            THEN [errors |-> <<>>,
                  warnings |-> <<Warn(cid, "child_missing_decision_under_list_container",
                                      Detail(node_id, [mustBe |-> must]))>>]
            ELSE IF cb.s \notin {"UICollectionViewCell", "UITableViewCell"}
            THEN [errors |-> <<Err(cid, "child_component_must_be_cell",
                                   Detail(node_id, [mustBe |-> must, actual |-> cb.s]))>>,
                  warnings |-> <<>>]
            ELSE [errors |-> <<>>, warnings |-> <<>>]
       ELSE [errors |-> <<>>, warnings |-> <<>>]

\* the body of the loops over child_ids in the second loop of cmd_validate
child_check(cid, node_id, parent_base, decisions, ui_system) ==
    LET cb == base_component_from_decision(Get(decisions, cid))
        none == [errors |-> <<>>, warnings |-> <<>>]
        must == IF parent_base = "UICollectionView" THEN "UICollectionViewCell"
                ELSE "UITableViewCell"
        listed == IF ui_system = "UIKit" /\ parent_base \in {"UICollectionView", "UITableView"}
                  THEN IF cb = JNull
                       THEN [errors |-> <<>>,
                             warnings |-> <<Warn(cid, "child_missing_decision_under_list_container",
                                                 Detail(node_id, [mustBe |-> must]))>>]
                       ELSE IF cb.s # must
                       THEN [errors |-> <<Err(cid, "child_component_must_be_cell",
                                              Detail(node_id, [mustBe |-> must, actual |-> cb.s]))>>,
                             warnings |-> <<>>]
                       ELSE none
                  ELSE none
        allowed == CASE ui_system = "UIKit" /\ parent_base = "UIButton" ->
                          [set |-> {"UILabel", "UIImageView"},
                           msg |-> "unexpected_child_under_UIButton"]
                     [] ui_system = "SwiftUI" /\ parent_base = "Button" ->
                          [set |-> {"Text", "Image", "Label", "View"},
                           msg |-> "unexpected_child_under_Button"]
                     [] ui_system = "SwiftUI" /\ parent_base = "List" ->
                          [set |-> {"View", "Text", "Image", "HStack", "VStack", "ZStack"},
                           msg |-> "unexpected_child_under_List"]
                     [] OTHER -> [set |-> {}, msg |-> ""]
    IN [errors |-> listed.errors,
        warnings |-> listed.warnings
            \o When(allowed.msg # "" /\ cb # JNull /\ (cb # JNull => cb.s \notin allowed.set),
                    Warn(cid, allowed.msg, Detail(node_id, [actual |-> IF cb = JNull THEN "" ELSE cb.s])))]

\* the findings of the passes of a loop of cmd_validate, in order
RECURSIVE collect(_)
collect(found) ==
    IF found = <<>> THEN [errors |-> <<>>, warnings |-> <<>>]
    ELSE LET h == Head(found)
             t == collect(Tail(found))
         IN [errors |-> h.errors \o t.errors, warnings |-> h.warnings \o t.warnings]

\* the body of the second loop of cmd_validate, for one node
structure_checks(node_id, nodes, decisions, ui_system) ==
    LET parent_base == base_component_from_decision(Get(decisions, node_id))
        pb == IF parent_base = JNull THEN "" ELSE parent_base.s
        child_ids == nodes[node_id].childIds
    IN collect([i \in 1..Len(child_ids) |->
                  child_check(child_ids[i], node_id, pb, decisions, ui_system)])

\* a variant of validate in which a warning makes the result not ok
ValidateStrict(f) ==
    LET ld == load_state(f) IN
    IF ~ld.ok THEN Failed("validate", f)
    ELSE LET state == ld.state
             keys == NodeKeys(state.nodes)
             one == collect([i \in 1..Len(keys) |->
                               decision_checks(keys[i], state.decisions, state.uiSystem)])
             two == collect([i \in 1..Len(keys) |->
                               structure_checks(keys[i], state.nodes, state.decisions,
                                                state.uiSystem)])
             errors == one.errors \o two.errors
             warnings == one.warnings \o two.warnings
             ok == Len(errors) = 0 /\ Len(warnings) = 0
         IN [file |-> f,
             out |-> [cmd |-> "validate", rc |-> IF ok THEN 0 ELSE 1,
                      res |-> [ok |-> ok, errors |-> errors, warnings |-> warnings]]]

cmd_validate(f) ==
    LET ld == load_state(f) IN
    IF ~ld.ok THEN Failed("validate", f)
    ELSE LET state == ld.state
             keys == NodeKeys(state.nodes)
             one == collect([i \in 1..Len(keys) |->
                               decision_checks(keys[i], state.decisions, state.uiSystem)])
             two == collect([i \in 1..Len(keys) |->
                               structure_checks(keys[i], state.nodes, state.decisions,
                                                state.uiSystem)])
             errors == one.errors \o two.errors
             warnings == one.warnings \o two.warnings
             ok == Len(errors) = 0
         IN [file |-> f,
             out |-> [cmd |-> "validate", rc |-> IF ok THEN 0 ELSE 1,
                      res |-> [ok |-> ok, errors |-> errors, warnings |-> warnings]]]

---------------------------------------------------------------------------
(* Inputs of the commands *)

\* decision objects the external agent supplies
DecisionView ==
    JObj([k \in {"component", "properties"} |->
        IF k = "component" THEN JObj([b \in {"base"} |-> JStr("UIView")])
        ELSE JObj([q \in {"text"} |-> JStr("Go")])])

DecisionLabel == JObj([k \in {"component"} |-> JObj([b \in {"base"} |-> JStr("UILabel")])])

\* a decision object that itself has a "decisions" key holding an object
DecisionNested == JObj([k \in {"decisions"} |-> JObj(EmptyDict)])

\* the decision of a patch {"id": ...} that carries no other key
\* a decision whose "decisions" field is not an object
DecisionFlat == JObj([k \in {"decisions"} |-> JStr("x")])

DecisionEmpty == JObj(EmptyDict)

PlainDecisions == {DecisionView, DecisionLabel}

WorkIds == {IdNames[i] : i \in 1..MaxWorkNodes}

PatchIds == WorkIds \cup {UnknownId}

\* a batch: a decision for each id of a set of ids
Batches(D) == UNION {[S -> D] : S \in SUBSET PatchIds}

\* the three patch shapes of a batch
ListShape(b) ==
    LET ks == ItemKeys(b)
    IN JList([i \in 1..Len(ks) |-> JObj(Put(b[ks[i]].f, "id", JStr(ks[i])))])

MapShape(b) == JObj([k \in {"decisions"} |-> JObj(b)])

SingleShape(id, dec) == JObj(Put(dec.f, "id", JStr(id)))

\* payloads that match none of the three shapes
Malformed ==
    {JNull, JStr("a"), JNum(1), JObj(EmptyDict),
     DecisionView,
     JObj([k \in {"id"} |-> JNum(1)]),
     JObj([k \in {"id"} |-> JStr("")]),
     JObj([k \in {"decisions"} |-> JStr("a")]),
     JObj([k \in {"decisions", "id"} |-> JNull])}

\* lists whose items are all skipped: an accepted shape with nothing in it
EmptyListShapes ==
    {JList(<<JNum(1)>>), JList(<<JObj([k \in {"id"} |-> JStr("")])>>),
     JList(<<DecisionView>>)}

\* a call of apply: the payload, and the batch and shape it was made from
Entry(shape, b, payload) == [shape |-> shape, batch |-> b, payload |-> payload]

OneIdBatches(D) == UNION {[{id} -> D] : id \in PatchIds}

TheId(b) == CHOOSE id \in DOMAIN b : TRUE

ShapedEntries(D) ==
    {Entry("list", b, ListShape(b)) : b \in Batches(D)}
        \cup {Entry("map", b, MapShape(b)) : b \in Batches(D)}
        \cup {Entry("single", b, SingleShape(TheId(b), b[TheId(b)])) :
                b \in OneIdBatches(D \cup {DecisionEmpty})}

\* the three shapes of a batch of one decision that has a "decisions" key
NestedEntries ==
    {Entry("list", b, ListShape(b)) : b \in OneIdBatches({DecisionNested, DecisionFlat})}
        \cup {Entry("map", b, MapShape(b)) : b \in OneIdBatches({DecisionNested, DecisionFlat})}
        \cup {Entry("single", b, SingleShape(TheId(b), b[TheId(b)])) :
                b \in OneIdBatches({DecisionNested, DecisionFlat})}

OtherEntries ==
    {Entry("emptylist", EmptyDict, p) : p \in EmptyListShapes}
        \cup {Entry("malformed", EmptyDict, p) : p \in Malformed}
        \cup {Entry("unreadable", EmptyDict, Unreadable)}

Entries == ShapedEntries(PlainDecisions) \cup OtherEntries

NodeIdArgs == WorkIds \cup {UnknownId}

---------------------------------------------------------------------------
(* Actions: one per command *)

Do(r) == file' = r.file /\ out' = r.out

\* init --input raw --ui-system ui [--include-invisible]
Index ==
    \E ui \in UI_SYSTEMS, inc \in BOOLEAN :
        /\ Do(cmd_init(file, raw, ui, inc, DEFAULT_MAX_TEXT_LEN))
        /\ UNCHANGED <<raw, hist, wr>>

Skeleton ==
    \E nid \in NodeIdArgs \cup {""}, depth \in {0, 2} :
        /\ Do(cmd_skeleton(file, nid, depth))
        /\ UNCHANGED <<raw, hist, wr>>

Children ==
    \E nid \in NodeIdArgs :
        /\ Do(cmd_children(file, nid))
        /\ UNCHANGED <<raw, hist, wr>>

Facts ==
    \E nid \in NodeIdArgs :
        /\ Do(cmd_facts(file, nid))
        /\ UNCHANGED <<raw, hist, wr>>

Next ==
    /\ Do(cmd_next(file))
    /\ UNCHANGED <<raw, hist, wr>>

Apply ==
    \E e \in Entries :
        /\ Do(cmd_apply(file, e.payload))
        /\ UNCHANGED <<raw, hist, wr>>

Export ==
    \E no_absorb \in BOOLEAN, output \in Outputs :
        /\ Do(cmd_export(file, no_absorb, output))
        /\ UNCHANGED <<raw, hist, wr>>

Status ==
    /\ Do(cmd_status(file))
    /\ UNCHANGED <<raw, hist, wr>>

Validate ==
    /\ Do(cmd_validate(file))
    /\ UNCHANGED <<raw, hist, wr>>

---------------------------------------------------------------------------
(* Spec: the workflow, any command at any time, on small regular trees *)

\* the raw trees whose objects are all regular and carry distinct ids
RegularTrees(n) ==
    {RawPayload(d, <<0, 0>>, <<0, "none">>) : d \in UNION {Shapes(k) : k \in 1..n}}

Init ==
    /\ raw \in RegularTrees(MaxWorkNodes)
    /\ file = NoFile
    /\ out = NoOut
    /\ hist = <<>>
    /\ wr = NoWrite

Command ==
    \/ Index
    \/ Skeleton
    \/ Children
    \/ Facts
    \/ Next
    \/ Apply
    \/ Export
    \/ Status
    \/ Validate

Spec == Init /\ [][Command]_vars

---------------------------------------------------------------------------
(* SpecIndex: init applied to every raw tree of at most MaxNodes objects *)

InitIndex ==
    /\ raw \in RawTrees(MaxNodes)
    /\ file = NoFile
    /\ out = NoOut
    /\ hist = <<>>
    /\ wr = NoWrite

NextIndex == Index

SpecIndex == InitIndex /\ [][NextIndex]_vars

---------------------------------------------------------------------------
(* SpecMerge: index, then a patch P1, then a patch P2; hist holds the calls *)

IndexFirst ==
    /\ ~file.exists
    /\ out = NoOut
    /\ Index

Submit ==
    /\ file.exists
    /\ Len(hist) < 2
    /\ \E e \in Entries \cup NestedEntries :
        /\ Do(cmd_apply(file, e.payload))
        /\ hist' = Append(hist, e)
        /\ UNCHANGED <<raw, wr>>

NextMerge ==
    \/ IndexFirst
    \/ Submit

SpecMerge == Init /\ [][NextMerge]_vars

---------------------------------------------------------------------------
(* SpecCycle: index, then the cycle of next and apply of a decision for    *)
(* the node next returned, on trees of at most MaxNodes objects whose ids  *)
(* may repeat                                                              *)

CycleTrees ==
    UNION {{RawPayload(d, rep, <<0, "none">>) : rep \in Repeats(Len(d))} :
              d \in UNION {Shapes(k) : k \in 1..MaxNodes}}

InitCycle ==
    /\ raw \in CycleTrees
    /\ file = NoFile
    /\ out = NoOut
    /\ hist = <<>>
    /\ wr = NoWrite

AskNext ==
    /\ file.exists
    /\ out.cmd \in {"init", "apply"}
    /\ Next

ApplyReturned ==
    /\ out.cmd = "next"
    /\ out.rc = 0
    /\ ~out.res.done
    /\ \E d \in {DecisionView, DecisionEmpty} :
        LET b == [id \in {out.res.node.id} |-> d]
            e == Entry("single", b, SingleShape(out.res.node.id, d))
        IN /\ Do(cmd_apply(file, e.payload))
           /\ hist' = Append(hist, e)
           /\ UNCHANGED <<raw, wr>>

NextCycle ==
    \/ IndexFirst
    \/ AskNext
    \/ ApplyReturned

SpecCycle == InitCycle /\ [][NextCycle]_vars

---------------------------------------------------------------------------
(* Reading the persisted document in the claims *)

\* the state file holds a state document
Indexed == load_state(file).ok

Doc == file.doc

Ids == DOMAIN Doc.nodes

\* position of an id in the breadth-first order, 0 when it is not in it
Pos(id) ==
    IF \E i \in 1..Len(Doc.bfs) : Doc.bfs[i] = id
    THEN CHOOSE i \in 1..Len(Doc.bfs) : Doc.bfs[i] = id
    ELSE 0

HasParent(n) == Doc.nodes[n].parentId # JNull

ParentOf(n) == Doc.nodes[n].parentId.s

\* x is a proper descendant of s by the records' parentId chain
RECURSIVE IsDescendant(_, _, _)
IsDescendant(x, s, fuel) ==
    /\ fuel > 0
    /\ HasParent(x)
    /\ (ParentOf(x) = s \/ (ParentOf(x) \in Ids /\ IsDescendant(ParentOf(x), s, fuel - 1)))

\* the siblings listed after p in the childIds of p's parent
LaterSiblings(p) ==
    IF ~HasParent(p) \/ ParentOf(p) \notin Ids THEN {}
    ELSE LET cs == Doc.nodes[ParentOf(p)].childIds
         IN {cs[j] : j \in {j \in 1..Len(cs) : \E i \in 1..(j - 1) : cs[i] = p /\ cs[j] # p}}

---------------------------------------------------------------------------------------------------------------------------------------
(* Reading the run in the claims *)

Decided == Doc.decisions

Last(h) == h[Len(h)]

\* the ids the apply calls of the run were made for
HistIds == UNION {DOMAIN hist[i].batch : i \in 1..Len(hist)}

NextReturned == out.cmd = "next" /\ out.rc = 0

\* the positions of the breadth-first order that have no Decision Store entry
Undecided == {i \in 1..Len(Doc.bfs) : Doc.bfs[i] \notin DOMAIN Decided}

Least(S) == CHOOSE x \in S : \A y \in S : x <= y

---------------------------------------------------------------------------
(* C1: in a run from a fresh index that repeatedly applies a decision for  *)
(* the id next returned, next never returns an id that was already         *)
(* decided, and it returns the done signal after exactly |nodes|           *)
(* applications, not before.                                               *)
C1_CursorProgress ==
    NextReturned =>
        /\ ~out.res.done => out.res.node.id \notin HistIds
        /\ out.res.done <=> Len(hist) = Cardinality(Ids)

\* a tree of three or more nodes was decided node by node and next says done
C1_Witness ==
    /\ NextReturned
    /\ out.res.done
    /\ Len(hist) >= 3
    /\ Cardinality(Ids) = Len(hist)

---------------------------------------------------------------------------
(* C2: in every reachable state next returns the first id of the persisted *)
(* breadth-first order that has no Decision Store entry, and the done      *)
(* signal exactly when every id of the order has an entry.                 *)
C2_NextIsFirstUndecided ==
    /\ (out.cmd = "next" /\ Indexed) => out.rc = 0
    /\ NextReturned =>
        /\ out.res.done <=> Undecided = {}
        /\ Undecided # {} => out.res.node.id = Doc.bfs[Least(Undecided)]

\* decisions were applied out of order: the second node has one, the first has not
C2_Witness ==
    /\ NextReturned
    /\ Len(Doc.bfs) >= 2
    /\ Doc.bfs[2] \in DOMAIN Decided
    /\ Doc.bfs[1] \notin DOMAIN Decided
    /\ out.res.node.id = Doc.bfs[1]

---------------
(* C3: for every raw tree that index accepts, every non-root record's      *)
(* parentId names a record that is strictly earlier in the breadth-first   *)
(* order and strictly less deep, and the node comes in the breadth-first   *)
(* order before every descendant of its parent's later siblings.           *)
C3_OrderInvariant ==
    Indexed =>
        \A n \in Ids :
            HasParent(n) =>
                /\ ParentOf(n) \in Ids
                /\ Pos(n) > 0
                /\ Pos(ParentOf(n)) > 0
                /\ Pos(ParentOf(n)) < Pos(n)
                /\ Doc.nodes[ParentOf(n)].depth < Doc.nodes[n].depth
                /\ \A s \in LaterSiblings(ParentOf(n)) :
                       \A x \in Ids :
                           IsDescendant(x, s, Cardinality(Ids)) => Pos(n) < Pos(x)

---------------------------------------------------------------------------
(* C4: in a run from a fresh index in which every apply decides the node   *)
(* the preceding next returned, each next that returns a non-root node     *)
(* returns a non-null parentDecision for it.                               *)
C4_ParentFirst ==
    (NextReturned /\ ~out.res.done /\ HasParent(out.res.node.id)) =>
        out.res.parentDecision # JNull

---------------------------------------------------------------------------
(* Reading the apply calls of a run *)

HasDecisionsObject(d) == IsDict(GetOr(d.f, "decisions", JNull))

\* the batch of a call is what the call submits, in the shape of the call
\* (a single object whose decision has an object under "decisions" is a map
\* shape to the program, see C9)
ReadAsGiven(e) ==
    /\ e.shape \in {"list", "map", "single"}
    /\ e.shape = "single" => \A id \in DOMAIN e.batch : ~HasDecisionsObject(e.batch[id])

\* the state file before the last apply call of the run
FreshFile == save_state([Doc EXCEPT !.decisions = EmptyDict])

PreFile == IF Len(hist) = 1 THEN FreshFile ELSE cmd_apply(FreshFile, hist[1].payload).file

RECURSIVE ApplySingles(_, _, _)
ApplySingles(f, b, keys) ==
    IF keys = <<>> THEN f
    ELSE ApplySingles(cmd_apply(f, SingleShape(Head(keys), b[Head(keys)])).file, b, Tail(keys))

StoreAfter(f) == f.doc.decisions

SeqRange(q) == {q[i] : i \in 1..Len(q)}

---------------------------------------------------------------------------
(* C5: after patch P1 and then patch P2, every known id of P2 holds        *)
(* exactly P2's decision object, every known id of P1 alone holds P1's,    *)
(* and the store holds nothing else (the union when the ids are disjoint). *)
C5_LastWriteWins ==
    (Len(hist) = 2 /\ ReadAsGiven(hist[1]) /\ ReadAsGiven(hist[2])) =>
        LET b1 == hist[1].batch
            b2 == hist[2].batch
        IN /\ \A id \in Ids \cap DOMAIN b2 :
                  id \in DOMAIN Decided /\ Decided[id] = b2[id]
           /\ \A id \in (Ids \cap DOMAIN b1) \ DOMAIN b2 :
                  id \in DOMAIN Decided /\ Decided[id] = b1[id]
           /\ DOMAIN Decided = Ids \cap (DOMAIN b1 \cup DOMAIN b2)

\* the second patch replaced a decision that had a field the new one lacks
C5_Witness ==
    /\ Len(hist) = 2
    /\ ReadAsGiven(hist[1]) /\ ReadAsGiven(hist[2])
    /\ "a" \in DOMAIN hist[1].batch \cap DOMAIN hist[2].batch
    /\ hist[1].batch["a"] = DecisionView
    /\ hist[2].batch["a"] = DecisionLabel
    /\ "b" \in Ids \cap DOMAIN hist[1].batch
    /\ "b" \notin DOMAIN hist[2].batch
    /\ Decided["a"] = DecisionLabel

---------------------------------------------------------------------------
(* C6: from index on, the ids of the Decision Store are node-map ids, an   *)
(* apply never removes an id from the store, and the store is empty right  *)
(* after index.                                                            *)
C6_StoreOnlyGrows ==
    /\ [](Indexed => DOMAIN Decided \subseteq Ids)
    /\ []((out.cmd = "init" /\ out.rc = 0) => Decided = EmptyDict)
    /\ [][(Indexed /\ out'.cmd = "apply") =>
            /\ Indexed'
            /\ DOMAIN Decided \subseteq DOMAIN Decided']_vars

\* two applies filled the store of a two-node tree
C6_Witness ==
    /\ Indexed
    /\ out.cmd = "apply"
    /\ Cardinality(DOMAIN Decided) = 2
    /\ Len(out.res.applied) = 1

---------------------------------------------------------------------------
(* C7: an apply whose batch has ids that are not in the node map succeeds, *)
(* stores the decision of every known id of the batch, stores nothing for  *)
(* the unknown ids, and reports exactly the known ids as applied.          *)
C7_UnknownIdsSkipped ==
    (Len(hist) >= 1 /\ ReadAsGiven(Last(hist)) /\ DOMAIN Last(hist).batch \ Ids # {}) =>
        LET b == Last(hist).batch
            known == DOMAIN b \cap Ids
        IN /\ out.cmd = "apply"
           /\ out.rc = 0
           /\ \A id \in known : id \in DOMAIN Decided /\ Decided[id] = b[id]
           /\ (DOMAIN b \ Ids) \cap DOMAIN Decided = {}
           /\ SeqRange(out.res.applied) = known
           /\ Len(out.res.applied) = Cardinality(known)
           /\ out.res.appliedCount = Cardinality(known)

\* a batch of an unknown id followed by a known one
C7_Witness ==
    /\ Len(hist) >= 1
    /\ Last(hist).shape \in {"list", "map"}
    /\ DOMAIN Last(hist).batch = {UnknownId, "a"}
    /\ out.rc = 0
    /\ out.res.applied = <<"a">>
    /\ "a" \in DOMAIN Decided

---------------------------------------------------------------------------
(* C8: an apply whose payload matches none of the three shapes ends with a *)
(* non-zero status and leaves the state file as it was.                    *)
C8_MalformedPatchRejected ==
    [][(hist' # hist /\ Last(hist').shape = "malformed") =>
          /\ out'.cmd = "apply"
          /\ out'.rc # 0
          /\ file' = file]_vars

\* a malformed payload came after a patch that had stored a decision
C8_Witness ==
    /\ Len(hist) = 2
    /\ hist[1].shape = "map"
    /\ hist[2].shape = "malformed"
    /\ out.cmd = "apply"
    /\ out.rc = 2
    /\ "a" \in DOMAIN Decided
    /\ Decided["a"] = hist[1].batch["a"]

---------------------------------------------------------------------------
(* C9: whichever of the three shapes a set of (id, decision) pairs is      *)
(* submitted in, the Decision Store after it is the store the list shape,  *)
(* the map shape and the pairs one at a time as single objects produce.    *)
C9_ShapesEquivalent ==
    (Len(hist) >= 1 /\ Last(hist).shape \in {"list", "map", "single"}) =>
        LET b == Last(hist).batch
        IN /\ Decided = StoreAfter(cmd_apply(PreFile, ListShape(b)).file)
           /\ Decided = StoreAfter(cmd_apply(PreFile, MapShape(b)).file)
           /\ Decided = StoreAfter(ApplySingles(PreFile, b, ItemKeys(b)))

(* C9, amended: the three shapes produce the same Decision Store for pairs *)
(* whose decision objects have no "id" field and no object under a         *)
(* "decisions" field.                                                      *)
C9_ShapesEquivalentAmended ==
    (/\ Len(hist) >= 1
     /\ Last(hist).shape \in {"list", "map", "single"}
     /\ \A id \in DOMAIN Last(hist).batch :
            /\ "id" \notin DOMAIN Last(hist).batch[id].f
            /\ ~HasDecisionsObject(Last(hist).batch[id])) =>
        LET b == Last(hist).batch
        IN /\ Decided = StoreAfter(cmd_apply(PreFile, ListShape(b)).file)
           /\ Decided = StoreAfter(cmd_apply(PreFile, MapShape(b)).file)
           /\ Decided = StoreAfter(ApplySingles(PreFile, b, ItemKeys(b)))

\* a batch of two known ids in the map shape over a store that held a decision
C9_Witness ==
    /\ Len(hist) = 2
    /\ hist[1].shape = "single"
    /\ "a" \in DOMAIN hist[1].batch
    /\ hist[2].shape = "map"
    /\ DOMAIN hist[2].batch = {"a", "b"}
    /\ "b" \in Ids
    /\ out.rc = 0
    /\ Decided = hist[2].batch

---------------------------------------------------------------------------
\* the frame of a step: the index data stay, and only apply writes the file
FrameKept ==
    /\ Indexed'
    /\ Doc'.bfs = Doc.bfs
    /\ Doc'.nodes = Doc.nodes
    /\ Doc'.rootId = Doc.rootId
    /\ Doc'.uiSystem = Doc.uiSystem
    /\ Doc'.version = Doc.version
    /\ DOMAIN Doc' = DOMAIN Doc
    /\ out'.cmd # "apply" => file' = file

(* C10: after index, no command other than index changes the stored        *)
(* breadth-first order, node map, rootId, uiSystem or version; apply       *)
(* changes nothing but the decisions, and skeleton, children, facts, next, *)
(* status, validate and export leave the state file as it is.              *)
C10_OrderFixedAtIndex ==
    [][(Indexed /\ out'.cmd # "init") => FrameKept]_vars

(* C10, amended: the same, for every step but an export whose --output     *)
(* names the state file itself.                                            *)
C10_OrderFixedAtIndexAmended ==
    [][(/\ Indexed
        /\ out'.cmd # "init"
        /\ ~(out'.cmd = "export" /\ out'.rc = 0 /\ out'.output = StatePath)) => FrameKept]_vars

\* an export to a file of its own after both nodes of a tree were decided
C10_Witness ==
    /\ Indexed
    /\ out.cmd = "export"
    /\ out.rc = 0
    /\ out.output = OtherPath
    /\ Len(Doc.bfs) = 2
    /\ DOMAIN Decided = Ids

---------------------------------------------------------------------------
(* SpecWrite: init and apply with the write of the state file taken step   *)
(* by step (write_json_atomic), a crash of the process possible at every   *)
(* step, and the next command started after a crash.                       *)

WriteEntries ==
    {Entry("single", b, SingleShape(TheId(b), b[TheId(b)])) : b \in OneIdBatches(PlainDecisions)}

\* a command runs up to its call of save_state, or to its end if it fails before
Start(r) ==
    IF r.out.rc = 0
    THEN wr' = begin_write(file, r.file, r.out) /\ UNCHANGED <<file, out>>
    ELSE Do(r) /\ wr' = NoWrite

StartInit ==
    /\ wr.pc \in {"idle", "crashed"}
    /\ \E ui \in UI_SYSTEMS, inc \in BOOLEAN :
          Start(cmd_init(file, raw, ui, inc, DEFAULT_MAX_TEXT_LEN))
    /\ UNCHANGED <<raw, hist>>

StartApply ==
    /\ wr.pc \in {"idle", "crashed"}
    /\ \E e \in WriteEntries : Start(cmd_apply(file, e.payload))
    /\ UNCHANGED <<raw, hist>>

Mkstemp ==
    /\ wr.pc = "mkstemp"
    /\ wr' = mkstemp_step(wr)
    /\ UNCHANGED <<raw, file, out, hist>>

Dump ==
    /\ wr.pc = "dump"
    /\ wr' = dump_step(wr)
    /\ UNCHANGED <<raw, file, out, hist>>

Replace ==
    /\ wr.pc = "replace"
    /\ file' = replace_step(wr)
    /\ wr' = [wr EXCEPT !.pc = "report"]
    /\ UNCHANGED <<raw, out, hist>>

\* the command prints its result and ends
Report ==
    /\ wr.pc = "report"
    /\ out' = wr.result
    /\ wr' = NoWrite
    /\ UNCHANGED <<raw, file, hist>>

\* json.dump raises (a full disk): the finally clause removes the temporary
\* file; apply catches the exception and ends with status 2, init does not
\* catch it and Python ends with status 1
DumpFails ==
    /\ wr.pc = "dump"
    /\ out' = [cmd |-> wr.result.cmd, rc |-> IF wr.result.cmd = "init" THEN 1 ELSE 2]
    /\ wr' = NoWrite
    /\ UNCHANGED <<raw, file, hist>>

\* the process is killed: nothing more of it runs, the finally clause included
Crash ==
    /\ wr.pc \in {"mkstemp", "dump", "replace", "report"}
    /\ wr' = [wr EXCEPT !.pc = "crashed"]
    /\ UNCHANGED <<raw, file, out, hist>>

NextWrite ==
    \/ StartInit
    \/ StartApply
    \/ Mkstemp
    \/ Dump
    \/ Replace
    \/ Report
    \/ DumpFails
    \/ Crash

SpecWrite == Init /\ [][NextWrite]_vars

---------------------------------------------------------------------------
(* C11: whatever step of a state write of init or apply the process        *)
(* crashes at, the state file holds a complete document, the one it held   *)
(* before the command or the one the command was writing.                  *)
C11_AtomicPersistence ==
    /\ file.exists => load_state(file).ok
    /\ wr.pc # "idle" => file = wr.old \/ file = wr.new

\* an apply crashed while the text of a changed document was half written
C11_Witness ==
    /\ wr.pc = "crashed"
    /\ wr.result.cmd = "apply"
    /\ wr.tmp = 1
    /\ wr.old.exists
    /\ wr.new # wr.old
    /\ file = wr.old

---------------------------------------------------------------------------
(* SpecVersion: the commands that load the state file, on state documents  *)
(* of the supported version and of other versions (written by another      *)
(* release of the tool, or with no version field at all).                  *)

\* versions other than the supported one
OtherVersions == {0, 2}

\* a state document as init leaves it, with none or one node decided
DocsOf(tree) ==
    UNION {LET f0 == cmd_init(NoFile, tree, ui, FALSE, DEFAULT_MAX_TEXT_LEN).file
           IN {f0.doc} \cup {cmd_apply(f0, e.payload).file.doc : e \in WriteEntries} :
           ui \in UI_SYSTEMS}

WithVersion(doc, v) == [doc EXCEPT !.version = v]

WithoutVersion(doc) == [k \in DOMAIN doc \ {"version"} |-> doc[k]]

VersionedFiles(tree) ==
    UNION {{save_state(WithVersion(doc, v)) : v \in OtherVersions \cup {STATE_VERSION}}
              \cup {save_state(WithoutVersion(doc))} : doc \in DocsOf(tree)}

InitVersion ==
    /\ raw \in RegularTrees(MaxWorkNodes)
    /\ file \in VersionedFiles(raw)
    /\ out = NoOut
    /\ hist = <<>>
    /\ wr = NoWrite

NextVersion ==
    \/ Skeleton
    \/ Children
    \/ Facts
    \/ Next
    \/ Apply
    \/ Export
    \/ Status
    \/ Validate

SpecVersion == InitVersion /\ [][NextVersion]_vars

\* the state file holds a document whose version is not the supported one
OtherVersion ==
    /\ file.exists
    /\ "version" \in DOMAIN file.doc => file.doc.version # STATE_VERSION

---------------------------------------------------------------------------
---------------------------------------------------------------------------
(* SpecRepeat: init on trees of regular objects in which an id may occur   *)
(* twice.                                                                  *)

SpecRepeat == InitCycle /\ [][NextIndex]_vars

\* the objects of a raw tree in document order, each with the id of the
\* object it is a child of (JNull for the root) and its depth
RECURSIVE Occurrences(_, _, _)
RECURSIVE OccurrencesOf(_, _, _)
Occurrences(node, parent, depth) ==
    <<[id |-> node.f["id"].s, parent |-> parent, depth |-> depth, node |-> node]>>
        \o (IF "children" \in DOMAIN node.f
            THEN OccurrencesOf(node.f["children"].q, node.f["id"], depth + 1)
            ELSE <<>>)

OccurrencesOf(children, parent, depth) ==
    IF children = <<>> THEN <<>>
    ELSE Occurrences(Head(children), parent, depth)
            \o OccurrencesOf(Tail(children), parent, depth)

RawOccurrences == Occurrences(raw, JNull, 0)

Places(id) == {i \in 1..Len(RawOccurrences) : RawOccurrences[i].id = id}

RepeatedIds == {RawOccurrences[i].id : i \in {j \in 1..Len(RawOccurrences) :
                                                  Cardinality(Places(RawOccurrences[j].id)) > 1}}

\* the occurrences after the first of their id
LaterOccurrences == {i \in 1..Len(RawOccurrences) : i # Least(Places(RawOccurrences[i].id))}

---------------------------------------------------------------------------
(* C13: init on a tree in which an id occurs twice succeeds, the record of *)
(* that id has the parentId, depth, type and facts of the first occurrence *)
(* in document order, and init prints one warning for each later           *)
(* occurrence.                                                             *)
C13_FirstOccurrenceKept ==
    (out.cmd = "init" /\ RepeatedIds # {}) =>
        /\ out.rc = 0
        /\ Indexed
        /\ \A id \in RepeatedIds :
              LET first == RawOccurrences[Least(Places(id))]
              IN /\ id \in Ids
                 /\ Doc.nodes[id].parentId = first.parent
                 /\ Doc.nodes[id].depth = first.depth
                 /\ Doc.nodes[id].type = first.node.f["type"].s
                 /\ Doc.nodes[id].facts = node_facts(first.node, DEFAULT_MAX_TEXT_LEN)
        /\ Len(out.stderr) = Cardinality(LaterOccurrences)

\* the part of C13 that is not about the warning
C13_RecordOfFirst ==
    (out.cmd = "init" /\ RepeatedIds # {}) =>
        /\ out.rc = 0
        /\ Indexed
        /\ \A id \in RepeatedIds :
              LET first == RawOccurrences[Least(Places(id))]
              IN /\ id \in Ids
                 /\ Doc.nodes[id].parentId = first.parent
                 /\ Doc.nodes[id].depth = first.depth
                 /\ Doc.nodes[id].type = first.node.f["type"].s

---------------------------------------------------------------------------
(* Export of decided trees: the state file is indexed, the agent decides the
   nodes in the order of the cursor, and the tree is exported with and
   without absorption *)

MaxExportNodes == 3

\* the class names absorb_children_in_export_tree matches, per UI system
ButtonClass(ui) == IF ui = "UIKit" THEN "UIButton" ELSE "Button"

LabelClass(ui) == IF ui = "UIKit" THEN "UILabel" ELSE "Text"

ImageClass(ui) == IF ui = "UIKit" THEN "UIImageView" ELSE "Image"

ViewClass(ui) == IF ui = "UIKit" THEN "UIView" ELSE "VStack"

Component(base) == JObj([b \in {"base"} |-> JStr(base)])

\* a decision of a class with the given properties object
Decision(base, props) ==
    JObj([k \in {"component", "properties"} |->
            IF k = "component" THEN Component(base) ELSE JObj(props)])

\* a decision of a class without a properties key
Bare(base) == JObj([k \in {"component"} |-> Component(base)])

ImageRef == JObj([k \in {"imageHash"} |-> JStr("h1")])

ColorValue == JObj([k \in {"hex"} |-> JStr("#fff")])

FontValue == JObj([k \in {"size"} |-> JNum(12)])

LabelProps ==
    [k \in {"text", "textColor", "font"} |->
        CASE k = "text" -> JStr("Go") [] k = "textColor" -> ColorValue [] k = "font" -> FontValue]

ImageProps ==
    [k \in {"image", "contentMode"} |->
        IF k = "image" THEN ImageRef ELSE JStr("scaleAspectFit")]

\* properties of a button that sets every key absorption can write, with
\* values of several kinds
OwnButtonProps ==
    [k \in {"title", "titleColor", "titleFont", "image", "imageContentMode"} |->
        CASE k = "title" -> JNull
          [] k = "titleColor" -> JStr("red")
          [] k = "titleFont" -> JNull
          [] k = "image" -> JStr("own.png")
          [] k = "imageContentMode" -> JStr("center")]

\* properties of an image view whose own image is a name, not an object
OwnImageProps == [k \in {"image"} |-> JStr("own.png")]

\* a decision that has a "source" key of its own
DecisionSourced(ui) ==
    JObj([k \in {"component", "source"} |->
            IF k = "component" THEN Component(ViewClass(ui))
            ELSE JObj([q \in {"id", "type"} |->
                         IF q = "id" THEN JStr(UnknownId) ELSE JStr("VECTOR")])])

ExportDecisions(ui) ==
    {Bare(ButtonClass(ui)), Decision(ButtonClass(ui), OwnButtonProps),
     Decision(LabelClass(ui), LabelProps), Bare(LabelClass(ui)),
     Decision(ImageClass(ui), ImageProps), Bare(ImageClass(ui)),
     Decision(ImageClass(ui), OwnImageProps),
     Decision(ViewClass(ui), EmptyDict),
     DecisionSourced(ui)}

InitExport ==
    /\ raw \in RegularTrees(MaxExportNodes)
    /\ file = NoFile
    /\ out = NoOut
    /\ hist = <<>>
    /\ wr = NoWrite

IndexExport ==
    /\ ~file.exists
    /\ \E ui \in UI_SYSTEMS : Do(cmd_init(file, raw, ui, FALSE, DEFAULT_MAX_TEXT_LEN))
    /\ UNCHANGED <<raw, hist, wr>>

\* the agent decides a node that has no decision yet
Decide ==
    /\ load_state(file).ok
    /\ out.cmd \in {"init", "apply"}
    /\ LET state == load_state(file).state IN
       \E id \in DOMAIN state.nodes \ DOMAIN state.decisions :
          \E d \in ExportDecisions(state.uiSystem) :
             Do(cmd_apply(file, SingleShape(id, d)))
    /\ UNCHANGED <<raw, hist, wr>>

ExportTree ==
    /\ load_state(file).ok
    /\ \E no_absorb \in BOOLEAN : Do(cmd_export(file, no_absorb, ""))
    /\ UNCHANGED <<raw, hist, wr>>

NextExport == IndexExport \/ Decide \/ ExportTree

SpecExport == InitExport /\ [][NextExport]_vars

\* the nodes of an export tree, parents before children
RECURSIVE ExportNodes(_)
ExportNodes(node) ==
    LET kids == Get(node.f, "children")
        RECURSIVE Flat(_)
        Flat(q) == IF q = <<>> THEN <<>> ELSE ExportNodes(Head(q)) \o Flat(Tail(q))
    IN <<node>> \o (IF IsList(kids) THEN Flat(kids.q) ELSE <<>>)

\* source.id and source.type as read from an export node
SourcePair(node) ==
    LET src == Get(node.f, "source")
    IN IF IsDict(src) THEN <<Get(src.f, "id"), Get(src.f, "type")>> ELSE <<JNull, JNull>>

ExportedPlain == out.cmd = "export" /\ out.rc = 0 /\ out.no_absorb

\* the export nodes whose source reads as the node map's pair of id
Reproducing(id) ==
    LET q == ExportNodes(out.res.root)
    IN {i \in 1..Len(q) : SourcePair(q[i]) = <<JStr(id), JStr(Doc.nodes[id].type)>>}

\* C14: after an export without absorption, each node that has a recorded
\* decision is found in the export tree exactly once by its source.id and
\* source.type, equal to the (id, type) pair of the node map, whatever keys
\* its decision has
C14_SourceRoundTrip ==
    ExportedPlain =>
        \A id \in DOMAIN Doc.decisions : Cardinality(Reproducing(id)) = 1

\* the same for the decisions that have no "source" key of their own
C14_RoundTripOfOtherKeys ==
    ExportedPlain =>
        \A id \in DOMAIN Doc.decisions :
            "source" \notin DOMAIN Doc.decisions[id].f => Cardinality(Reproducing(id)) = 1

ExportedAbsorbed == out.cmd = "export" /\ out.rc = 0 /\ ~out.no_absorb

\* the class and the properties a decision gives a node; "" and the empty
\* object when the node has none
BaseOf(id) ==
    IF id \in DOMAIN Doc.decisions THEN get_component_base_from_spec(Doc.decisions[id]) ELSE ""

PropsOf(id) ==
    IF id \in DOMAIN Doc.decisions /\ IsDict(Doc.decisions[id])
    THEN child_properties(Doc.decisions[id]) ELSE EmptyDict

IsLabelWithText(id) ==
    BaseOf(id) = LabelClass(Doc.uiSystem) /\ IsStr(Get(PropsOf(id), "text"))

IsImageWithRef(id) ==
    BaseOf(id) = ImageClass(Doc.uiSystem) /\ IsDict(Get(PropsOf(id), "image"))

\* a button without title and image whose children are one label with a
\* text and one image view with an image reference, in either order
ButtonOfLabelAndImage(id, l, i) ==
    /\ BaseOf(id) = ButtonClass(Doc.uiSystem)
    /\ "title" \notin DOMAIN PropsOf(id)
    /\ "image" \notin DOMAIN PropsOf(id)
    /\ Doc.nodes[id].childIds \in {<<l, i>>, <<i, l>>}
    /\ IsLabelWithText(l)
    /\ IsImageWithRef(i)

\* the export nodes whose source.id is id
ExportedAs(id) ==
    LET q == ExportNodes(out.res.root)
    IN {q[k] : k \in {j \in 1..Len(q) : SourcePair(q[j])[1] = JStr(id)}}

\* C15: after an export with absorption, a button that has no title and no
\* image of its own and whose children are one label with a string text and
\* one image view with an image reference has the label's text as title, the
\* label's id as titleFrom, the reference as image, the image view's id as
\* imageFrom, and no children
C15_ButtonAbsorbsLabelAndImage ==
    ExportedAbsorbed =>
        \A id, l, i \in Ids :
            ButtonOfLabelAndImage(id, l, i) =>
                /\ Cardinality(ExportedAs(id)) = 1
                /\ \A n \in ExportedAs(id) :
                      LET p == child_properties(n)
                      IN /\ Get(p, "title") = PropsOf(l)["text"]
                         /\ Get(p, "titleFrom") = JStr(l)
                         /\ Get(p, "image") = PropsOf(i)["image"]
                         /\ Get(p, "imageFrom") = JStr(i)
                         /\ Get(n.f, "children") = JList(<<>>)

C15_Witness ==
    /\ ExportedAbsorbed
    /\ Doc.uiSystem = "SwiftUI"
    /\ \E id, l, i \in Ids :
          /\ ButtonOfLabelAndImage(id, l, i)
          /\ Doc.nodes[id].childIds = <<i, l>>
          /\ \E n \in ExportedAs(id) : Get(child_properties(n), "title") = JStr("Go")

AbsorbableKeys == {"title", "titleColor", "titleFont", "image", "imageContentMode"}

IsAbsorbingParent(id) == BaseOf(id) \in {ButtonClass(Doc.uiSystem), ImageClass(Doc.uiSystem)}

\* the export node of id has the value the decision of id gives the key
KeepsOwn(id, key) ==
    \A n \in ExportedAs(id) : Get(child_properties(n), key) = PropsOf(id)[key]

\* C16: after an export with absorption, every absorbable key that the
\* decision of a button or image view has in its properties has, in the
\* export node of that parent, the value the decision gave it, whatever the
\* value and whatever the children
C16_OwnValueWins ==
    ExportedAbsorbed =>
        \A id \in Ids : \A key \in AbsorbableKeys :
            (IsAbsorbingParent(id) /\ key \in DOMAIN PropsOf(id)) => KeepsOwn(id, key)

\* the same for buttons only
C16_OwnValueWinsInButtons ==
    ExportedAbsorbed =>
        \A id \in Ids : \A key \in AbsorbableKeys :
            (BaseOf(id) = ButtonClass(Doc.uiSystem) /\ key \in DOMAIN PropsOf(id))
                => KeepsOwn(id, key)

\* a chain of nodes of one class, each the only child of the one before, in
\* which the innermost node alone has the key in its properties, there with
\* a value absorption takes
RECURSIVE IsChain(_, _, _)
IsChain(id, class, key) ==
    LET kids == Doc.nodes[id].childIds
        v == Get(PropsOf(id), key)
    IN /\ BaseOf(id) = class
       /\ IF kids = <<>> THEN IF key = "text" THEN IsStr(v) ELSE IsDict(v)
          ELSE /\ Len(kids) = 1
               /\ key \notin DOMAIN PropsOf(id)
               /\ IsChain(kids[1], class, key)

\* the value the innermost node of a chain holds
RECURSIVE Innermost(_, _)
Innermost(id, key) ==
    IF Doc.nodes[id].childIds = <<>> THEN PropsOf(id)[key]
    ELSE Innermost(Doc.nodes[id].childIds[1], key)

IsNested(id) == Doc.nodes[id].childIds # <<>>

\* the parent of id is no button and no image view, or id is the root
AbsorbedByNone(id) ==
    \A p \in Ids : id \in SeqRange(Doc.nodes[p].childIds) => ~IsAbsorbingParent(p)

\* a button without a title or image of its own whose only child is a chain
ButtonOverChain(b, class, key) ==
    /\ BaseOf(b) = ButtonClass(Doc.uiSystem)
    /\ {"title", "image"} \cap DOMAIN PropsOf(b) = {}
    /\ Len(Doc.nodes[b].childIds) = 1
    /\ IsChain(Doc.nodes[b].childIds[1], class, key)
    /\ IsNested(Doc.nodes[b].childIds[1])

\* the export node of id, a single one, has the value and no children
Collapsed(id, key, v) ==
    /\ Cardinality(ExportedAs(id)) = 1
    /\ \A n \in ExportedAs(id) :
          /\ Get(child_properties(n), key) = v
          /\ Get(n.f, "children") = JList(<<>>)

\* after an export with absorption, a chain of nested image views of which
\* only the innermost has an image is exported as its outermost node alone,
\* with that image and no children
C17_ImageChainCollapses ==
    ExportedAbsorbed =>
        \A id \in Ids :
            (IsChain(id, ImageClass(Doc.uiSystem), "image") /\ IsNested(id) /\ AbsorbedByNone(id))
                => Collapsed(id, "image", Innermost(id, "image"))

\* after an export with absorption, a button over a chain of nested image
\* views has the image of the innermost one and no children
C17_ButtonTakesWrappedImage ==
    ExportedAbsorbed =>
        \A b \in Ids :
            ButtonOverChain(b, ImageClass(Doc.uiSystem), "image")
                => Collapsed(b, "image", Innermost(Doc.nodes[b].childIds[1], "image"))

\* after an export with absorption, a button over a chain of nested labels
\* has the text of the innermost one as its title
ButtonTakesWrappedLabel ==
    ExportedAbsorbed =>
        \A b \in Ids :
            ButtonOverChain(b, LabelClass(Doc.uiSystem), "text")
                => \A n \in ExportedAs(b) :
                      Get(child_properties(n), "title")
                          = Innermost(Doc.nodes[b].childIds[1], "text")

\* C17: absorption works from the innermost node outwards: an image chain
\* collapses into its outermost node, and a button whose label child is
\* wrapped in the same way receives the wrapped text
C17_BottomUp == C17_ImageChainCollapses /\ ButtonTakesWrappedLabel

\* the source id the export node of a design node has before absorption
PlainSourceId(id) ==
    child_source_id(build_export_tree(Doc, id, Cardinality(Ids) + 1))

\* the source ids of the children an export node has
ChildSourceIds(n) ==
    LET kids == Get(n.f, "children")
    IN IF IsList(kids) THEN {child_source_id(kids.q[i]) : i \in 1..Len(kids.q)} ELSE {}

\* c is a child of p in the node map, p has an export node n, and n does not
\* have c among its children
Removed(p, c, n) ==
    /\ c \in SeqRange(Doc.nodes[p].childIds)
    /\ n \in ExportedAs(p)
    /\ PlainSourceId(c) \notin ChildSourceIds(n)

Traced(c, n) ==
    \/ Get(child_properties(n), "titleFrom") = JStr(PlainSourceId(c))
    \/ Get(child_properties(n), "imageFrom") = JStr(PlainSourceId(c))

\* C18: after an export with absorption, every child that absorption has
\* removed from the children of an export node has its source id in the
\* titleFrom or the imageFrom of that node's properties
C18_RemovedChildrenTraced ==
    ExportedAbsorbed =>
        \A p, c \in Ids : \A n \in ExportedAs(p) : Removed(p, c, n) => Traced(c, n)

\* the same for the children the image-view branch removes
C18_ImageViewRemovalsTraced ==
    ExportedAbsorbed =>
        \A p, c \in Ids : \A n \in ExportedAs(p) :
            (BaseOf(p) = ImageClass(Doc.uiSystem) /\ Removed(p, c, n)) => Traced(c, n)

---------------------------------------------------------------------------
(* Validation of decided trees: the state file is indexed, the agent decides
   nodes, and the store is validated at any point *)

\* a cell decision with the sizing data the first pass asks for
SizedCell(base) ==
    JObj([k \in {"component", "layout"} |->
            IF k = "component" THEN Component(base)
            ELSE JObj([q \in {"cellSizing"} |-> JStr("selfSizing")])])

\* a decision whose layout.kind the validator does not know: a warning
DecisionOddLayout ==
    JObj([k \in {"component", "layout"} |->
            IF k = "component" THEN Component("UIView")
            ELSE JObj([q \in {"kind"} |-> JStr("flow")])])

\* a decision whose component has no base
DecisionBaseless == JObj([k \in {"component"} |-> JObj(EmptyDict)])

ValidateDecisions ==
    {Bare("UITableView"), Bare("UICollectionView"), Bare("List"),
     SizedCell("UITableViewCell"), Bare("UICollectionViewCell"),
     Bare("UIView"), DecisionOddLayout, DecisionBaseless}

DecideAny ==
    /\ load_state(file).ok
    /\ LET state == load_state(file).state IN
       \E id \in DOMAIN state.nodes \ DOMAIN state.decisions :
          \E d \in ValidateDecisions : Do(cmd_apply(file, SingleShape(id, d)))
    /\ UNCHANGED <<raw, hist, wr>>

ValidateStore ==
    /\ load_state(file).ok
    /\ out.cmd # "validate"
    /\ Validate

NextValidate == IndexExport \/ DecideAny \/ ValidateStore

SpecValidate == InitExport /\ [][NextValidate]_vars

Validated == out.cmd = "validate" /\ out.rc \in {0, 1}

\* the cell class the cursor tells the children of a parent to use; "" when
\* the decision of the parent requires none
RequiredCell(p) ==
    LET r == requirements_for_child(Get(Doc.decisions, p))
    IN IF "mustUseComponentBase" \in DOMAIN r.f THEN r.f["mustUseComponentBase"].s ELSE ""

\* the positions of the structural errors that name the child
CellErrors(c) ==
    {i \in 1..Len(out.res.errors) :
        /\ out.res.errors[i].nodeId = c
        /\ out.res.errors[i].error = "child_component_must_be_cell"}

\* what the claim asks for a child c of a parent that requires the cell
\* class must
ChildReported(c, must) ==
    /\ (BaseOf(c) \notin {"", must}) =>
          /\ Cardinality(CellErrors(c)) = 1
          /\ \A i \in CellErrors(c) :
                Get(out.res.errors[i].detail.f, "mustBe") = JStr(must)
    /\ (c \notin DOMAIN Doc.decisions) =>
          /\ \E i \in 1..Len(out.res.warnings) :
                /\ out.res.warnings[i].nodeId = c
                /\ out.res.warnings[i].warning = "child_missing_decision_under_list_container"
          /\ \A i \in 1..Len(out.res.errors) : out.res.errors[i].nodeId # c

C20_OkIffNoErrors ==
    Validated =>
        /\ out.res.ok <=> (Len(out.res.errors) = 0)
        /\ \A id \in Ids \ DOMAIN Doc.decisions :
              /\ \A i \in 1..Len(out.res.errors) : out.res.errors[i].nodeId # id
              /\ \E i \in 1..Len(out.res.warnings) :
                    /\ out.res.warnings[i].nodeId = id
                    /\ out.res.warnings[i].warning = "missing_decision"
        /\ DOMAIN Doc.decisions = {} => out.res.ok
        /\ out.rc # 0 <=> ~out.res.ok

\* a store with a decision is ok although validate has several warnings
C20_Witness ==
    /\ Validated
    /\ out.res.ok
    /\ out.rc = 0
    /\ DOMAIN Doc.decisions # {}
    /\ Len(out.res.warnings) >= 2
    /\ \E i \in 1..Len(out.res.warnings) : out.res.warnings[i].warning = "layout_kind_unknown"

---------------------------------------------------------------------------
(* Hints of the cursor.  The design tree is a frame a with one child b; the
   tree is indexed, the frame is decided, and next is asked for its bundle.
   SpecPins varies the geometry and the constraints of b. *)

\* an object with the given fields; a field whose value is JNull is left out
Fields(f) == JObj([k \in {q \in DOMAIN f : f[q] # JNull} |-> f[k]])

\* "" stands for a key that the design node does not have
Opt(s) == IF s = "" THEN JNull ELSE JStr(s)

Offsets == {0, 20}

Widths == {100, 25}

ParentWidths == {300, 125}

ParentHeights == {200, 65}

HorizontalModes == {"MIN", "MAX", "CENTER", "STRETCH", "SCALE", "max", ""}

VerticalModes == {"MIN", "MAX", "CENTER", "STRETCH", "SCALE"}

HorizontalSizings == {"", "FIXED", "HUG"}

VerticalSizings == {"fixed", "FILL"}

\* the parent's layoutMode and the child's layoutPositioning
Positionings == {<<"", "">>, <<"VERTICAL", "">>, <<"VERTICAL", "ABSOLUTE">>}

PinChild(x, w, horiz, vert, sh, sv, positioning) ==
    Fields([id |-> JStr("b"), type |-> JStr("RECTANGLE"),
            x |-> JNum(x), y |-> JNum(10), width |-> JNum(w), height |-> JNum(50),
            constraints |-> Fields([horizontal |-> Opt(horiz), vertical |-> JStr(vert)]),
            layoutSizingHorizontal |-> Opt(sh),
            layoutSizingVertical |-> Opt(sv),
            layoutPositioning |-> Opt(positioning)])

PinParent(pw, ph, mode, child) ==
    Fields([id |-> JStr("a"), type |-> JStr("FRAME"),
            x |-> JNum(0), y |-> JNum(0), width |-> JNum(pw), height |-> JNum(ph),
            layoutMode |-> Opt(mode),
            children |-> JList(<<child>>)])

PinTrees ==
    {PinParent(pw, ph, pos[1], PinChild(x, w, horiz, vert, sh, sv, pos[2])) :
        x \in Offsets, w \in Widths, pw \in ParentWidths, ph \in ParentHeights,
        horiz \in HorizontalModes, vert \in VerticalModes,
        sh \in HorizontalSizings, sv \in VerticalSizings, pos \in Positionings}

InitPins ==
    /\ raw \in PinTrees
    /\ file = NoFile
    /\ out = NoOut
    /\ hist = <<>>
    /\ wr = NoWrite

\* the agent decides the node the cursor is at as a table view or as a view
DecideAtCursor ==
    /\ load_state(file).ok
    /\ LET id == _next_node_id(load_state(file).state) IN
          /\ id # ""
          /\ \E base \in {"UITableView", "UIView"} :
                Do(cmd_apply(file, SingleShape(id, Bare(base))))
    /\ UNCHANGED <<raw, hist, wr>>

AskHints ==
    /\ load_state(file).ok
    /\ out.cmd # "next"
    /\ Next

NextHints == IndexExport \/ DecideAtCursor \/ AskHints

SpecPins == InitPins /\ [][NextHints]_vars

\* next has returned the bundle of a node
Asked == Indexed /\ out.cmd = "next" /\ out.rc = 0 /\ ~out.res.done

\* the design node next has returned the bundle of: the child b or the frame a
AskedChild == Asked /\ _next_node_id(Doc) = "b"

TheChild == raw.f["children"].q[1].f

\* the pins of the hint, as the state file gives them
HintPins == constraint_pins(Doc.nodes, "b", JStr("a")).pins

PinTexts(keys) ==
    LET p == SelectSeq(HintPins, LAMBDA q : q.key \in keys)
    IN [i \in 1..Len(p) |-> p[i].text]

\* the anchors the claim gives for a constraint, from offset, size and the
\* parent's size
ClaimedAnchors(mode, keys, pos, size, extent) ==
    LET leading == keys[1] \o "=" \o ToString(pos)
        trailing == keys[2] \o "=" \o ToString(0 - (extent - (pos + size)))
        centre == add_pin(keys[3], (2 * pos + size) - extent).text
    IN CASE mode = "MIN" -> <<leading>>
         [] mode = "MAX" -> <<trailing>>
         [] mode = "CENTER" -> <<centre>>
         [] mode = "STRETCH" -> <<leading, trailing>>
         [] mode = "SCALE" -> <<leading>>
         [] OTHER -> <<>>

SizingOf(key) == IF key \in DOMAIN TheChild THEN Upper(TheChild[key].s) ELSE ""

ConstraintOf(axis) ==
    IF axis \in DOMAIN TheChild["constraints"].f
    THEN Upper(TheChild["constraints"].f[axis].s) ELSE ""

\* C21: when next gives a pin hint for the child, the hint is the list of
\* its pins; the pins of the horizontal axis are L=x for MIN and SCALE,
\* R=-(pw-(x+w)) for MAX, CX=(x+w/2)-pw/2 for CENTER, L and R for STRETCH;
\* those of the vertical axis are T, B, CY in the same way; W (H) is there
\* exactly when the horizontal (vertical) sizing is FIXED or not given; and
\* no key occurs twice
C21_PinDerivation ==
    (AskedChild /\ "pinsCandidate" \in DOMAIN out.res.hints.f) =>
        /\ out.res.hints.f["pinsCandidate"] = JStr("pins=" \o join_pins(HintPins))
        /\ PinTexts({"L", "R", "CX"})
              = ClaimedAnchors(ConstraintOf("horizontal"), <<"L", "R", "CX">>,
                               TheChild["x"].n, TheChild["width"].n, raw.f["width"].n)
        /\ PinTexts({"T", "B", "CY"})
              = ClaimedAnchors(ConstraintOf("vertical"), <<"T", "B", "CY">>,
                               TheChild["y"].n, TheChild["height"].n, raw.f["height"].n)
        /\ PinTexts({"W"})
              = (IF SizingOf("layoutSizingHorizontal") \in {"FIXED", ""}
                 THEN <<"W=" \o ToString(TheChild["width"].n)>> ELSE <<>>)
        /\ PinTexts({"H"})
              = (IF SizingOf("layoutSizingVertical") \in {"FIXED", ""}
                 THEN <<"H=" \o ToString(TheChild["height"].n)>> ELSE <<>>)
        /\ \A i, j \in 1..Len(HintPins) : HintPins[i].key = HintPins[j].key => i = j
        /\ Len(HintPins) = Len(PinTexts({"L", "R", "CX", "T", "B", "CY", "W", "H"}))

\* a child at x = 20 of width 100 under a parent of width 300 with the
\* horizontal constraint MAX
C21_Witness ==
    /\ AskedChild
    /\ TheChild["x"].n = 20 /\ TheChild["width"].n = 100 /\ raw.f["width"].n = 300
    /\ ConstraintOf("horizontal") = "MAX"
    /\ out.res.hints.f["pinsCandidate"] = JStr("pins=R=-180:T=10:W=100:H=50")

---------------------------------------------------------------------------
(* SpecHint varies the type, the auto-layout mode and the name of b *)

NodeTypes == {"TEXT", "text", "IMAGE", "FRAME", "RECTANGLE"}

LayoutModes == {"", "HORIZONTAL", "vertical", "NONE"}

NodeNames ==
    {"", "list", "grid", "scroll", "button", "icon", "title", "card",
     "ListButton", "btn_icon", "icon-title", "grid/feed"}

HintTrees ==
    {Fields([id |-> JStr("a"), type |-> JStr("FRAME"),
             children |->
                 JList(<<Fields([id |-> JStr("b"), type |-> JStr(t),
                                 layoutMode |-> Opt(m), name |-> Opt(n)])>>)]) :
        t \in NodeTypes, m \in LayoutModes, n \in NodeNames}

InitHint ==
    /\ raw \in HintTrees
    /\ file = NoFile
    /\ out = NoOut
    /\ hist = <<>>
    /\ wr = NoWrite

SpecHint == InitHint /\ [][NextHints]_vars

\* the record of the node next has returned the bundle of
AskedRecord == Doc.nodes[_next_node_id(Doc)]

AskedTokens ==
    LET q == AskedRecord.facts.f["nameTokens"].q IN {q[i].s : i \in 1..Len(q)}

AskedLayoutMode ==
    IF "layout" \in DOMAIN AskedRecord.facts.f
    THEN Upper(PyStr(GetOr(AskedRecord.facts.f["layout"].f, "layoutMode", JStr(""))))
    ELSE ""

\* the rules of the claim in their order: whether the rule applies, the
\* reason that names it, and the classes it can give
HintRules ==
    <<[applies |-> Upper(AskedRecord.type) = "TEXT",
       reason |-> "figma_type=TEXT", bases |-> {"UILabel", "Text"}],
      [applies |-> Upper(AskedRecord.type) = "IMAGE",
       reason |-> "figma_type=IMAGE", bases |-> {"UIImageView", "Image"}],
      [applies |-> AskedLayoutMode \in {"HORIZONTAL", "VERTICAL"},
       reason |-> "layoutMode=" \o AskedLayoutMode,
       bases |-> {"UIStackView", "HStack", "VStack"}],
      [applies |-> AskedTokens \cap (TABLE_TOKENS \cup COLLECTION_TOKENS \cup SCROLL_TOKENS) # {},
       reason |-> "name_suggests_list_or_scroll",
       bases |-> {"UITableView", "UICollectionView", "List", "ScrollView"}],
      [applies |-> AskedTokens \cap BUTTON_TOKENS # {},
       reason |-> "name_suggests_button", bases |-> {"UIButton", "Button"}],
      [applies |-> AskedTokens \cap ICON_TOKENS # {},
       reason |-> "name_suggests_image", bases |-> {"UIImageView", "Image"}],
      [applies |-> AskedTokens \cap LABEL_TOKENS # {},
       reason |-> "name_suggests_text", bases |-> {"UILabel", "Text"}],
      [applies |-> TRUE, reason |-> "default", bases |-> {"UIView", "View"}]>>

FirstRule == HintRules[CHOOSE i \in 1..Len(HintRules) :
                           HintRules[i].applies /\ \A j \in 1..(i - 1) : ~HintRules[j].applies]

\* C22: the component hint of next is the one of the first rule that
\* applies, in the order type, auto-layout mode, list/grid/scroll name,
\* button name, image name, text name, default: its reasons are the one
\* reason that names that rule, and its base is a class of that rule
C22_HintPrecedence ==
    Asked =>
        /\ "componentHint" \in DOMAIN out.res.hints.f
        /\ LET hint == out.res.hints.f["componentHint"].f
           IN /\ hint["reasons"] = JList(<<JStr(FirstRule.reason)>>)
              /\ hint["base"].s \in FirstRule.bases

\* a node whose name has a button token and an image token and that has an
\* auto-layout mode: the mode decides
C22_Witness ==
    /\ Asked
    /\ AskedTokens = {"btn", "icon"}
    /\ AskedLayoutMode = "VERTICAL"
    /\ Doc.uiSystem = "SwiftUI"
    /\ out.res.hints.f["componentHint"].f["base"] = JStr("VStack")

---------------------------------------------------------------------------
(* SpecText varies the characters of b and the --max-text-len of init; hist
   holds the option init was called with *)

Texts == {"", "a", "abcd", "abcdefgh"}

\* -1 is the no-limit setting, DEFAULT_MAX_TEXT_LEN the default
TextLimits == {-1, 0, 2, 4, 8, DEFAULT_MAX_TEXT_LEN}

TextTrees ==
    {Fields([id |-> JStr("a"), type |-> JStr("FRAME"),
             children |->
                 JList(<<Fields([id |-> JStr("b"), type |-> JStr("TEXT"),
                                 characters |-> Opt(c), text |-> Opt(t)])>>)]) :
        c \in Texts, t \in {"", "abcd"}}

InitText ==
    /\ raw \in TextTrees
    /\ file = NoFile
    /\ out = NoOut
    /\ hist = <<>>
    /\ wr = NoWrite

IndexText ==
    /\ ~file.exists
    /\ \E ui \in UI_SYSTEMS, m \in TextLimits :
          /\ Do(cmd_init(file, raw, ui, FALSE, m))
          /\ hist' = <<[cmd |-> "init", max_text_len |-> m]>>
    /\ UNCHANGED <<raw, wr>>

NextText == IndexText \/ DecideAtCursor \/ AskHints

SpecText == InitText /\ [][NextText]_vars

\* the characters of the design node b: its characters, or else its text
OriginalText ==
    IF "characters" \in DOMAIN TheChild THEN TheChild["characters"].s
    ELSE IF "text" \in DOMAIN TheChild THEN TheChild["text"].s ELSE ""

\* the tree is indexed and b has characters
TextIndexed == Indexed /\ hist # <<>> /\ OriginalText # ""

Limit == hist[1].max_text_len

TextFacts == Doc.nodes["b"].facts.f["text"].f

IsPrefix(p, t) == Len(p) <= Len(t) /\ SubSeq(t, 1, Len(p)) = p

Flagged ==
    "charactersTruncated" \in DOMAIN TextFacts /\ TextFacts["charactersTruncated"] = JBool(TRUE)

\* C23 as stated: for a limit m >= 0 the characters in the facts are at most
\* m long and a prefix of the node's characters, and the flag is set exactly
\* when the node's characters are longer than m; without a limit the
\* characters are unchanged and the flag is not set
C23_TextTruncation ==
    TextIndexed =>
        /\ Limit >= 0 =>
              /\ Len(TextFacts["characters"].s) <= Limit
              /\ IsPrefix(TextFacts["characters"].s, OriginalText)
              /\ Flagged <=> Len(OriginalText) > Limit
        /\ Limit = -1 => (TextFacts["characters"].s = OriginalText /\ ~Flagged)

\* C23, amended: characters longer than m >= 0 are stored as their first m
\* characters followed by "...", with the flag; shorter ones, and all
\* without a limit, are stored unchanged, without the flag
C23_TextTruncationMarked ==
    TextIndexed =>
        /\ (Limit >= 0 /\ Len(OriginalText) > Limit) =>
              /\ TextFacts["characters"].s = SubSeq(OriginalText, 1, Limit) \o "..."
              /\ Flagged
        /\ (Limit = -1 \/ Len(OriginalText) <= Limit) =>
              /\ TextFacts["characters"].s = OriginalText
              /\ ~Flagged

C23_Witness ==
    /\ TextIndexed
    /\ Limit = 2
    /\ OriginalText = "abcdefgh"
    /\ TextFacts["characters"] = JStr("ab...")
    /\ Flagged

---------------------------------------------------------------------------
(* The node map and the breadth-first order after init *)

\* the last command was an init that succeeded
IndexSucceeded == out.cmd = "init" /\ out.rc = 0 /\ Indexed

\* the ids that the childIds of p list
ChildIdsOf(p) == SeqRange(Doc.nodes[p].childIds)

\* an id is listed by the childIds of two records, or twice by one
ListedTwice ==
    \E p \in Ids :
        \/ Len(Doc.nodes[p].childIds) > Cardinality(ChildIdsOf(p))
        \/ \E q \in Ids \ {p} : ChildIdsOf(p) \cap ChildIdsOf(q) # {}

\* C24: after every successful index the breadth-first order holds every id
\* of the node map exactly once and no other id, so its length is the node
\* count
C24_OrderCoversMap ==
    IndexSucceeded =>
        /\ SeqRange(Doc.bfs) = Ids
        /\ \A i, j \in 1..Len(Doc.bfs) : Doc.bfs[i] = Doc.bfs[j] => i = j
        /\ Len(Doc.bfs) = Cardinality(Ids)
        /\ out.res.bfsCount = out.res.nodeCount

C24_Witness ==
    /\ IndexSucceeded
    /\ ListedTwice
    /\ Cardinality(Ids) >= 3
    /\ Len(Doc.bfs) = Cardinality(Ids)

---------------------------------------------------------------------------
\* parentId and childIds name the same pairs, no childIds lists an id
\* twice, and every listed id is a key of the node map
LinksAgree ==
    /\ \A p \in Ids, c \in Ids :
          (c \in ChildIdsOf(p)) <=> (Doc.nodes[c].parentId = JStr(p))
    /\ \A p \in Ids : Len(Doc.nodes[p].childIds) = Cardinality(ChildIdsOf(p))
    /\ \A p \in Ids : ChildIdsOf(p) \subseteq Ids

\* C25: after every successful index, c is listed in the childIds of p
\* exactly when the record of c has parentId p, no id is listed twice in one
\* childIds, and every listed id is a key of the node map
C25_LinksAgree == IndexSucceeded => LinksAgree

\* the same for the trees in which no id occurs twice
C25_LinksAgreeWithoutRepeats == (IndexSucceeded /\ RepeatedIds = {}) => LinksAgree

\* every listed id is a key of the node map, repeated ids or not
C25_ListedIdsAreKeys == IndexSucceeded => \A p \in Ids : ChildIdsOf(p) \subseteq Ids

---------------------------------------------------------------------------
\* the record of rootId is the first of the order, without parent, at depth 0
RootRecorded ==
    /\ Doc.rootId \in Ids
    /\ Doc.nodes[Doc.rootId].parentId = JNull
    /\ Doc.nodes[Doc.rootId].depth = 0
    /\ Len(Doc.bfs) >= 1
    /\ Doc.bfs[1] = Doc.rootId

\* C26: after every successful index rootId is a key of the node map, its
\* record has parentId null and depth 0, and it is the first element of the
\* breadth-first order
C26_RootRecord == IndexSucceeded => RootRecorded

\* the root of the raw tree is not hidden
RootVisible == should_include_node(select_root_node(raw).root, FALSE)

\* the same for a root that is not hidden
C26_RootRecordOfVisibleRoot == (IndexSucceeded /\ RootVisible) => RootRecorded

\* a hidden root indexed with --include-invisible is recorded like any other
C26_HiddenRootIncluded ==
    (IndexSucceeded /\ ~RootVisible /\ Doc.nodes # EmptyDict) => RootRecorded

---------------------------------------------------------------------------
(* SpecOutline: init on trees in which an id may occur twice, decisions at
   the cursor, and export with and without absorption *)

OutlineTrees ==
    UNION {{RawPayload(d, rep, <<0, "none">>) : rep \in Repeats(Len(d))} :
              d \in UNION {Shapes(k) : k \in 1..(MaxExportNodes + 1)}}

InitOutline ==
    /\ raw \in OutlineTrees
    /\ file = NoFile
    /\ out = NoOut
    /\ hist = <<>>
    /\ wr = NoWrite

\* the agent applies a decision, which may be the empty object, for the node
\* at the cursor
DecideOutline ==
    /\ load_state(file).ok
    /\ LET id == _next_node_id(load_state(file).state) IN
          /\ id # ""
          /\ \E d \in {Bare("UIView"), DecisionEmpty} :
                Do(cmd_apply(file, SingleShape(id, d)))
    /\ UNCHANGED <<raw, hist, wr>>

NextOutline == IndexExport \/ DecideOutline \/ ExportTree

SpecOutline == InitOutline /\ [][NextOutline]_vars

\* the export nodes of the last export
Exported == ExportNodes(out.res.root)

\* the export nodes whose source.id is id
ExportedWithId(id) == {i \in 1..Len(Exported) : child_source_id(Exported[i]) = id}

\* the source ids of the children of an export node, in their order
ChildSourceSeq(n) ==
    LET kids == n.f["children"].q
    IN [i \in 1..Len(kids) |-> child_source_id(kids[i])]

\* C27: in every state that init and applies lead to, export --no-absorb
\* ends with a tree in which every id of the node map is the source.id of
\* exactly one export node and the children of each export node are the
\* export nodes of its record's childIds, in document order
C27_ExportIsomorphic ==
    /\ (out.cmd = "export" => out.rc = 0)
    /\ ExportedPlain =>
          /\ \A id \in Ids : Cardinality(ExportedWithId(id)) = 1
          /\ \A i \in 1..Len(Exported) :
                /\ child_source_id(Exported[i]) \in Ids
                /\ ChildSourceSeq(Exported[i])
                      = Doc.nodes[child_source_id(Exported[i])].childIds

\* the same for the trees in which no id occurs twice
C27_ExportIsomorphicWithoutRepeats ==
    RepeatedIds = {} =>
        /\ (out.cmd = "export" => out.rc = 0)
        /\ ExportedPlain =>
              /\ \A id \in Ids : Cardinality(ExportedWithId(id)) = 1
              /\ \A i \in 1..Len(Exported) :
                    /\ child_source_id(Exported[i]) \in Ids
                    /\ ChildSourceSeq(Exported[i])
                          = Doc.nodes[child_source_id(Exported[i])].childIds

\* an export fails on a tree in which an id occurs again below itself
C27_ExportFails == out.cmd = "export" /\ out.rc = 2 /\ Indexed

---------------------------------------------------------------------------
\* the export node carries the mark of a node without decision
MarkedUndecided(n) ==
    /\ get_component_base_from_spec(n) = "__UNDECIDED__"
    /\ Get(n.f, "warnings") = JList(<<JStr("missing_decision")>>)

\* next can still return id: it is in the order and has no entry in the
\* Decision Store
StillToDecide(id) == id \in SeqRange(Doc.bfs) /\ id \notin DOMAIN Decided

\* the export nodes are marked exactly where the cursor can still stop
MarksFollowCursor ==
    \A i \in 1..Len(Exported) :
        child_source_id(Exported[i]) \in Ids =>
            (MarkedUndecided(Exported[i]) <=> StillToDecide(child_source_id(Exported[i])))

\* C28: export marks a node as __UNDECIDED__ with the warning
\* missing_decision exactly when the node has no entry in the Decision
\* Store, that is exactly when next could still return it
C28_ExportMarksUndecided == (out.cmd = "export" /\ out.rc = 0) => MarksFollowCursor

\* the same for the states in which no recorded decision is the empty object
C28_MarksWithoutEmptyDecisions ==
    (out.cmd = "export" /\ out.rc = 0
        /\ \A id \in DOMAIN Decided : Decided[id] # DecisionEmpty) => MarksFollowCursor

---------------------------------------------------------------------------
\* the export node of id as export --no-absorb prints it
PlainNode(id) == build_export_tree(Doc, id, Cardinality(Ids) + 1)

OwnKeys == {"component", "layout", "properties", "source"}

\* the fields of an export node that are its own, and the ids of its children
OwnFields(n) ==
    [fields |-> [k \in OwnKeys \cap DOMAIN n.f |-> n.f[k]], children |-> ChildSourceSeq(n)]

\* the same, with a missing properties key read as the empty object
OwnFieldsFilled(n) ==
    [fields |-> [k \in (OwnKeys \cap DOMAIN n.f) \cup {"properties"} |->
                    IF k \in DOMAIN n.f THEN n.f[k] ELSE JObj(EmptyDict)],
     children |-> ChildSourceSeq(n)]

\* the export nodes of the last export that are not absorbing parents
OtherNodes ==
    {i \in 1..Len(Exported) :
        /\ child_source_id(Exported[i]) \in Ids
        /\ get_component_base_from_spec(Exported[i])
              \notin {ButtonClass(Doc.uiSystem), ImageClass(Doc.uiSystem)}}

\* C29: an export node whose base is neither the button class nor the image
\* class has the same component, layout, properties, source and direct
\* children with and without absorption
C29_OthersUntouched ==
    ExportedAbsorbed =>
        \A i \in OtherNodes :
            OwnFields(Exported[i]) = OwnFields(PlainNode(child_source_id(Exported[i])))

\* the same up to a properties key with the empty object, which absorption
\* adds to a node that has a base, children and no properties
C29_OthersUntouchedButProperties ==
    ExportedAbsorbed =>
        \A i \in OtherNodes :
            /\ OwnFieldsFilled(Exported[i])
                  = OwnFieldsFilled(PlainNode(child_source_id(Exported[i])))
            /\ (OwnFields(Exported[i]) # OwnFields(PlainNode(child_source_id(Exported[i])))
                  => Len(ChildSourceSeq(Exported[i])) > 0)

---------------------------------------------------------------------------
\* the mustUseComponentBase that next reports among the requirements of a
\* node, "" when it reports none: cmd_next takes the requirements from the
\* decision of the record's parentId
NextRequires(c) ==
    IF ~HasParent(c) THEN ""
    ELSE LET r == requirements_for_child(Get(Doc.decisions, ParentOf(c)))
         IN IF "mustUseComponentBase" \in DOMAIN r.f
            THEN r.f["mustUseComponentBase"].s ELSE ""

\* the node has a recorded decision that does not follow the requirement
BreaksRequirement(c) ==
    /\ NextRequires(c) # ""
    /\ c \in DOMAIN Doc.decisions
    /\ BaseOf(c) # NextRequires(c)

\* validate is not ok and has an error for the node
ErrorFor(c) ==
    /\ ~out.res.ok
    /\ \E i \in 1..Len(out.res.errors) : out.res.errors[i].nodeId = c

\* C30 as stated: when next would report mustUseComponentBase = C for a node
\* and the node has a recorded decision whose base is not C, validate is not
\* ok and has an error for that node
C30_RequirementsEnforced ==
    Validated => \A c \in Ids : BreaksRequirement(c) => ErrorFor(c)

\* the same for the states whose UI system is UIKit
C30_RequirementsEnforcedUIKit ==
    (Validated /\ Doc.uiSystem = "UIKit") =>
        \A c \in Ids : BreaksRequirement(c) => ErrorFor(c)

====
